---- MODULE Spec2Model ----
(***************************************************************************)
(* Ticket-processing pipeline of the AI support co-pilot API:              *)
(*   app/services/ai_service.py       sentiment model, LLM classification, *)
(*                                    keyword fallback, orchestrator       *)
(*   app/services/supabase_service.py ticket record gateway                *)
(*   app/routers/tickets.py           HTTP handlers                        *)
(*   app/models.py                    request / response validation        *)
(*                                                                         *)
(* Numbers: a confidence is an integer number of thousandths (850 is       *)
(* 0.85); a raw sentiment score is an integer number of ten-thousandths.   *)
(* Texts: a description is a sequence of fragments separated by a single   *)
(* space; a fragment is one of the strings of Vocabulary.                  *)
(***************************************************************************)
EXTENDS Integers, Sequences, FiniteSets, TLC

VARIABLES
    store,      \* the tickets table: id -> row
    nextId,     \* the next id the table assigns on insert
    reqs,       \* the POST /api/tickets/process requests: slot -> request
    call,       \* the last direct call of a service method, with its result
    environment,                \* settings.environment
    ai_service_instance,        \* _ai_service_instance: None or the instance
    supabase_service_instance,  \* _supabase_service_instance: None or the instance
    inits,      \* how many times each constructor has run
    callers     \* what each caller of the two get_..._service functions received

\* the settings and the module globals of the server process
globals == <<environment, ai_service_instance, supabase_service_instance, inits, callers>>

vars == <<store, nextId, reqs, call, globals>>

----------------------------------------------------------------------------
(* Bounds of the model *)

MaxWords == 2          \* fragments per description
MaxTickets == 2        \* rows the table ever holds
MaxRequests == 2       \* process requests, all of which may be in flight
MaxElapsedMs == 1      \* the largest elapsed time a clock difference yields
MaxCallers == 3        \* callers of get_ai_service and get_supabase_service

----------------------------------------------------------------------------
(* Sequences *)

RECURSIVE SelectWords(_, _)
\* [w for w in list if w in S], in the order of list
SelectWords(list, S) ==
    IF list = <<>> THEN <<>>
    ELSE IF Head(list) \in S THEN <<Head(list)>> \o SelectWords(Tail(list), S)
         ELSE SelectWords(Tail(list), S)

\* list[:n]
Take(list, n) == SubSeq(list, 1, IF Len(list) < n THEN Len(list) ELSE n)

Min(a, b) == IF a < b THEN a ELSE b

SeqsUpTo(S, n) == UNION {[1..k -> S] : k \in 0..n}

----------------------------------------------------------------------------
(* Texts *)

\* a run of two spaces
Blank == "  "

Vocabulary ==
    {"internet", "factura", "plan", "gracias", "malo", "hola", "ERROR del sistema", Blank}

\* str.lower() of a fragment
LowerWord(w) == IF w = "ERROR del sistema" THEN "error del sistema" ELSE w

\* the keywords of the five keyword lists that occur in a lower-case fragment
\* as a substring (k in w)
KeywordsIn(w) ==
    CASE w = "internet" -> {"internet"}
      [] w = "factura" -> {"factura"}
      [] w = "plan" -> {"plan"}
      [] w = "gracias" -> {"gracias"}
      [] w = "malo" -> {"mal", "malo"}
      [] w = "error del sistema" -> {"error", "sistema"}
      [] OTHER -> {}

\* len() of a fragment
WordLen(w) ==
    CASE w = "internet" -> 8
      [] w = "factura" -> 7
      [] w = "plan" -> 4
      [] w = "gracias" -> 7
      [] w = "malo" -> 4
      [] w = "hola" -> 4
      [] w = "ERROR del sistema" -> 17
      [] w = Blank -> 2
      [] OTHER -> 0

RECURSIVE TextLen(_)
\* len() of a description: the fragments and the spaces between them
TextLen(d) ==
    IF d = <<>> THEN 0
    ELSE IF Len(d) = 1 THEN WordLen(d[1])
         ELSE WordLen(Head(d)) + 1 + TextLen(Tail(d))

\* text.lower()
Lower(d) == [i \in 1..Len(d) |-> LowerWord(d[i])]

\* the keywords k with (k in text), for a lower-case text; no keyword of the
\* lists holds a space, so none spans two fragments
Occurring(text) == UNION {KeywordsIn(text[i]) : i \in 1..Len(text)}

Descriptions == SeqsUpTo(Vocabulary, MaxWords)

----------------------------------------------------------------------------
(* JSON values, as json.loads returns them *)

JAbsent == [ty |-> "absent", s |-> "", n |-> 0, l |-> <<>>]
JNull == [ty |-> "null", s |-> "", n |-> 0, l |-> <<>>]
JStr(x) == [ty |-> "str", s |-> x, n |-> 0, l |-> <<>>]
JNum(x) == [ty |-> "num", s |-> "", n |-> x, l |-> <<>>]
JList(x) == [ty |-> "list", s |-> "", n |-> 0, l |-> x]

\* dict[key] read as if every key were there
GetPresent(v, default) == v

\* dict.get(key, default): the default only when the key is absent
Get(v, default) == IF v.ty = "absent" THEN default ELSE v

----------------------------------------------------------------------------
(* settings (app/config.py) *)

groq_model == "llama-3.1-8b-instant"
sentiment_model == "cardiffnlp/twitter-xlm-roberta-base-sentiment"

\* settings.sentiment_model.split('/')[-1]
SentimentModelName == "twitter-xlm-roberta-base-sentiment"

----------------------------------------------------------------------------
(* Sentiment analysis (Transformers) *)

\* What self.sentiment_pipeline(text[:512]) does: it raises, or returns a list
\* of {label, score} items ("flat") or a list holding one such list ("nested").
\* An item without a 'label' key has keyed = FALSE.
Item(label, score) == [label |-> label, score |-> score, keyed |-> TRUE]
Unkeyed(score) == [label |-> "", score |-> score, keyed |-> FALSE]
PipeRaise == [kind |-> "raise", items |-> <<>>]
Nested(items) == [kind |-> "nested", items |-> items]
Flat(items) == [kind |-> "flat", items |-> items]

SentimentOutcomes ==
    { PipeRaise,
      Nested(<<Item("POSITIVE", 9996), Item("NEGATIVE", 4)>>),
      Nested(<<Item("NEGATIVE", 6012), Item("POSITIVE", 3988)>>),
      Nested(<<Item("NEUTRAL", 3400), Item("POSITIVE", 3300), Item("NEGATIVE", 3300)>>),
      Flat(<<Item("NEGATIVE", 8500)>>),
      Flat(<<Item("negative", 8000)>>),
      Flat(<<Item("1 star", 0)>>),
      Flat(<<Unkeyed(7000)>>),
      Flat(<<>>) }

sentiment_map(label) ==
    CASE label \in {"POSITIVE", "5 stars", "4 stars"} -> "Positivo"
      [] label \in {"NEUTRAL", "3 stars"} -> "Neutral"
      [] label \in {"NEGATIVE", "2 stars", "1 star"} -> "Negativo"
      [] OTHER -> "Neutral"          \* sentiment_map.get(label, "Neutral")

\* max(sentiments, key=lambda x: x['score']): the first item of the highest score
TopSentiment(items) ==
    LET best == CHOOSE i \in 1..Len(items) :
                    /\ \A j \in 1..Len(items) : items[j].score <= items[i].score
                    /\ \A j \in 1..(i - 1) : items[j].score < items[i].score
    IN items[best]

\* round(score, 3) of a score in ten-thousandths, in thousandths (half to even)
Round3(score) ==
    LET q == score \div 10
        r == score % 10
    IN IF r < 5 THEN q
       ELSE IF r > 5 THEN q + 1
       ELSE IF q % 2 = 0 THEN q ELSE q + 1

positive_keywords ==
    <<"excelente", "genial", "gracias", "perfecto", "bien", "bueno", "feliz", "contento">>
negative_keywords ==
    <<"problema", "error", "no funciona", "mal", "urgente", "frustrado", "malo", "caído">>

\* str.lower() of a sentiment name
LowerName(x) ==
    CASE x = "Positivo" -> "positivo"
      [] x = "Negativo" -> "negativo"
      [] OTHER -> "neutral"

\* A reasoning text: its fixed part, the words joined into it, and the
\* sentiment name it holds ("" when it names none).
Text(msg, words, about) == [msg |-> msg, words |-> words, about |-> about]

generate_sentiment_reasoning(text, sentiment, score) ==
    LET occ == Occurring(Lower(text))
        found_positive == SelectWords(positive_keywords, occ)
        found_negative == SelectWords(negative_keywords, occ)
    IN IF sentiment = "Positivo" /\ found_positive # <<>>
       THEN Text("Detectadas expresiones positivas: ", Take(found_positive, 2), "")
       ELSE IF sentiment = "Negativo" /\ found_negative # <<>>
       THEN Text("Detectadas expresiones negativas: ", Take(found_negative, 2), "")
       ELSE IF score > 8000
       THEN Text("El tono general del mensaje indica sentimiento ", <<>>, LowerName(sentiment))
       ELSE Text("Sentimiento {} detectado con confianza moderada", <<>>, LowerName(sentiment))

\* the except branch of analyze_sentiment
SentimentFailure ==
    [sentiment |-> "Neutral", confidence |-> 500,
     reasoning |-> Text("No se pudo determinar el sentimiento con precisión", <<>>, ""),
     model |-> "fallback"]

analyze_sentiment(text, out) ==
    IF out.kind = "raise" THEN SentimentFailure
    ELSE IF out.items = <<>> THEN SentimentFailure          \* max() of an empty list
    ELSE LET top == TopSentiment(out.items)
         IN IF ~top.keyed THEN SentimentFailure             \* KeyError: 'label'
            ELSE LET mapped_sentiment == sentiment_map(top.label)
                 IN [sentiment |-> mapped_sentiment,
                     confidence |-> Round3(top.score),
                     reasoning |-> generate_sentiment_reasoning(text, mapped_sentiment, top.score),
                     model |-> SentimentModelName]

----------------------------------------------------------------------------
(* Category classification (LLM) *)

\* The members of a JSON object, by key; a key the object lacks is JAbsent.
Members(cat, reasoning, conf, kw) ==
    [category |-> cat, category_reasoning |-> reasoning, confidence |-> conf, keywords |-> kw]
NoMembers == Members(JAbsent, JAbsent, JAbsent, JAbsent)

\* response.content is a sequence of tokens: an opening brace, a closing brace,
\* the member list of an object ('"category": ..., "keywords": [...]'), a JSON
\* document that is no object (a number, a string, an array), or prose and
\* code fences, which hold no brace.
Open == [t |-> "open", m |-> NoMembers]
Close == [t |-> "close", m |-> NoMembers]
Prose == [t |-> "prose", m |-> NoMembers]
Scalar == [t |-> "scalar", m |-> NoMembers]
Body(m) == [t |-> "members", m |-> m]
Object(m) == <<Open, Body(m), Close>>

\* What self.category_chain.invoke(...) does: it raises (transport, timeout,
\* quota) or returns a response with a content.
LLMRaise == [raises |-> TRUE, content |-> <<>>]
LLMText(content) == [raises |-> FALSE, content |-> content]

\* the object the prompt asks for, echoed
Echo(cat, conf) == Members(JStr(cat), JStr("razon"), JNum(conf), JList(<<"internet">>))
EchoX == Echo("Técnico", 850)

MembersTried ==
    { Echo("Técnico", 850), Echo("Facturación", 1000), Echo("Comercial", 0) }
    \cup { [EchoX EXCEPT !.category = c] : c \in {JStr("Otro"), JNum(7), JNull, JAbsent} }
    \cup { [EchoX EXCEPT !.confidence = c] :
             c \in {JNum(-500), JNum(1500), JStr("0.9"), JStr("high"), JNull, JAbsent} }
    \cup { [EchoX EXCEPT !.keywords = k] : k \in {JList(<<>>), JStr("internet"), JNull, JAbsent} }
    \cup { [EchoX EXCEPT !.category_reasoning = r] : r \in {JNum(7), JNull, JAbsent} }

LLMOutcomes ==
    { LLMRaise }
    \cup { LLMText(Object(m)) : m \in MembersTried }
    \cup { LLMText(<<Prose>> \o Object(EchoX) \o <<Prose>>),    \* JSON inside prose or fences
           LLMText(<<Prose>> \o Object(Echo("Facturación", 1000))), \* prose, then the JSON
           LLMText(Object(EchoX) \o <<Prose, Open, Prose, Close>>), \* a second brace group
           LLMText(<<Prose>>),                                  \* "garbage no braces"
           LLMText(<<Open, Body(EchoX)>>),                      \* cut off before the '}'
           LLMText(<<Close, Body(EchoX), Open>>),               \* '}' before '{'
           LLMText(<<Open, Close>>),                            \* the empty object
           LLMText(<<Scalar>>),                                 \* JSON, but no object
           LLMText(<<>>) }

\* the search of r'\{.*?\}': the span from the first '{' to the first '}' after it
JsonMatchShortest(content) ==
    LET opens == {i \in 1..Len(content) : content[i].t = "open"}
        closes == {j \in 1..Len(content) : content[j].t = "close"}
    IN IF opens = {} THEN <<>>
       ELSE LET first == CHOOSE i \in opens : \A k \in opens : i <= k
                after == {j \in closes : j > first}
            IN IF after = {} THEN <<>>
               ELSE SubSeq(content, first, CHOOSE j \in after : \A k \in after : j <= k)

\* a search that never matches
JsonMatchNone(content) == <<>>

\* re.search(r'\{.*\}', content, re.DOTALL): the span from the first '{' to the
\* last '}' after it; <<>> when there is no match
JsonMatch(content) ==
    LET opens == {i \in 1..Len(content) : content[i].t = "open"}
        closes == {j \in 1..Len(content) : content[j].t = "close"}
    IN IF opens = {} THEN <<>>
       ELSE LET first == CHOOSE i \in opens : \A k \in opens : i <= k
                after == {j \in closes : j > first}
            IN IF after = {} THEN <<>>
               ELSE SubSeq(content, first, CHOOSE j \in after : \A k \in after : k <= j)

\* json.loads(text): ok = FALSE is JSONDecodeError; dict = FALSE is a value
\* that is no object
Decoded(ok, dict, m) == [ok |-> ok, dict |-> dict, m |-> m]
JsonLoads(text) ==
    IF Len(text) = 3 /\ text[1].t = "open" /\ text[2].t = "members" /\ text[3].t = "close"
    THEN Decoded(TRUE, TRUE, text[2].m)
    ELSE IF Len(text) = 2 /\ text[1].t = "open" /\ text[2].t = "close"
    THEN Decoded(TRUE, TRUE, NoMembers)
    ELSE IF Len(text) = 1 /\ text[1].t = "scalar"
    THEN Decoded(TRUE, FALSE, NoMembers)
    ELSE Decoded(FALSE, FALSE, NoMembers)

\* float(v), in thousandths: ok = FALSE is ValueError or TypeError
FloatOf(v) ==
    CASE v.ty = "num" -> [ok |-> TRUE, n |-> v.n]
      [] v.ty = "str" /\ v.s = "0.9" -> [ok |-> TRUE, n |-> 900]
      [] OTHER -> [ok |-> FALSE, n |-> 0]

Categories == {"Técnico", "Facturación", "Comercial"}
Sentiments == {"Positivo", "Neutral", "Negativo"}

\* ValidCategory without the membership test: the decoded value as it came
RawCategory(m) ==
    LET category == Get(m.category, JStr("Comercial"))
    IN IF category.ty = "str" THEN category.s ELSE "None"

\* lines 278-281: the category of the decoded object, or Comercial
ValidCategory(m) ==
    LET category == Get(m.category, JStr("Comercial"))
    IN IF category.ty = "str" /\ category.s \in Categories THEN category.s ELSE "Comercial"

tech_keywords ==
    <<"internet", "conexión", "no funciona", "error", "caído", "lento", "wifi", "servidor",
      "app", "sistema">>
billing_keywords ==
    <<"factura", "cobro", "pago", "precio", "tarifa", "suscripción", "renovación", "cargo">>
commercial_keywords ==
    <<"información", "plan", "producto", "servicio", "contratar", "consulta", "disponible">>

NoKeywordsReasoning ==
    "No se detectaron keywords específicas, clasificado como consulta comercial"
KeywordsReasoning == "Clasificado por keywords relevantes (método de respaldo)"

\* fallback_category_classification taking the last category of the highest score
fallback_last_of_highest(text) ==
    LET occ == Occurring(Lower(text))
        tech_score == Len(SelectWords(tech_keywords, occ))
        billing_score == Len(SelectWords(billing_keywords, occ))
        commercial_score == Len(SelectWords(commercial_keywords, occ))
        category == IF commercial_score >= billing_score /\ commercial_score >= tech_score
                    THEN "Comercial"
                    ELSE IF billing_score >= tech_score THEN "Facturación"
                    ELSE "Técnico"
        max_score == CASE category = "Técnico" -> tech_score
                       [] category = "Facturación" -> billing_score
                       [] OTHER -> commercial_score
    IN IF max_score = 0
       THEN [category |-> "Comercial", category_reasoning |-> JStr(NoKeywordsReasoning),
             confidence |-> 500, keywords |-> JList(<<>>), model |-> "fallback-keywords"]
       ELSE [category |-> category, category_reasoning |-> JStr(KeywordsReasoning),
             confidence |-> Min(600 + max_score * 100, 850), keywords |-> JList(<<>>),
             model |-> "fallback-keywords"]

\* fallback_category_classification without the cap at 0.85
fallback_uncapped(text) ==
    LET occ == Occurring(Lower(text))
        tech_score == Len(SelectWords(tech_keywords, occ))
        billing_score == Len(SelectWords(billing_keywords, occ))
        commercial_score == Len(SelectWords(commercial_keywords, occ))
        category == IF tech_score >= billing_score /\ tech_score >= commercial_score
                    THEN "Técnico"
                    ELSE IF billing_score >= commercial_score THEN "Facturación"
                    ELSE "Comercial"
        max_score == CASE category = "Técnico" -> tech_score
                       [] category = "Facturación" -> billing_score
                       [] OTHER -> commercial_score
    IN IF max_score = 0
       THEN [category |-> "Comercial", category_reasoning |-> JStr(NoKeywordsReasoning),
             confidence |-> 500, keywords |-> JList(<<>>), model |-> "fallback-keywords"]
       ELSE [category |-> category, category_reasoning |-> JStr(KeywordsReasoning),
             confidence |-> 600 + max_score * 100, keywords |-> JList(<<>>),
             model |-> "fallback-keywords"]

fallback_category_classification(text) ==
    LET occ == Occurring(Lower(text))
        tech_score == Len(SelectWords(tech_keywords, occ))
        billing_score == Len(SelectWords(billing_keywords, occ))
        commercial_score == Len(SelectWords(commercial_keywords, occ))
        \* max(scores, key=scores.get): the first key of the highest score
        category == IF tech_score >= billing_score /\ tech_score >= commercial_score
                    THEN "Técnico"
                    ELSE IF billing_score >= commercial_score THEN "Facturación"
                    ELSE "Comercial"
        max_score == CASE category = "Técnico" -> tech_score
                       [] category = "Facturación" -> billing_score
                       [] OTHER -> commercial_score
    IN IF max_score = 0
       THEN [category |-> "Comercial", category_reasoning |-> JStr(NoKeywordsReasoning),
             confidence |-> 500, keywords |-> JList(<<>>), model |-> "fallback-keywords"]
       ELSE [category |-> category, category_reasoning |-> JStr(KeywordsReasoning),
             confidence |-> Min(600 + max_score * 100, 850), keywords |-> JList(<<>>),
             model |-> "fallback-keywords"]

classify_category(text, llm) ==
    IF llm.raises THEN fallback_category_classification(text)
    ELSE LET json_match == JsonMatch(llm.content)
             result == IF json_match # <<>> THEN JsonLoads(json_match)
                       ELSE JsonLoads(llm.content)
         IN IF ~result.ok THEN fallback_category_classification(text)    \* JSONDecodeError
            ELSE IF ~result.dict THEN fallback_category_classification(text) \* no .get
            ELSE LET confidence == FloatOf(Get(result.m.confidence, JNum(800)))
                 IN IF ~confidence.ok THEN fallback_category_classification(text)
                    ELSE [category |-> ValidCategory(result.m),
                          category_reasoning |->
                              Get(result.m.category_reasoning, JStr("Clasificación automática")),
                          confidence |-> confidence.n,
                          keywords |-> Get(result.m.keywords, JList(<<>>)),
                          model |-> groq_model]

----------------------------------------------------------------------------
(* Orchestrator *)

\* round(c1 * 0.6 + c2 * 0.4, 3), in thousandths: 6*c1 + 4*c2 is even, so the
\* sum is never half-way between two thousandths
Combine(c1, c2) == (600 * c1 + 400 * c2 + 500) \div 1000

\* int((time.time() - start) * 1000)
ElapsedValues == {0, MaxElapsedMs}

\* The sentiment a keyword count gives: the majority of the positive and the
\* negative keywords occurring in the description, Neutral on a tie.
KeywordSentiment(description) ==
    LET occ == Occurring(Lower(description))
        positive == Len(SelectWords(positive_keywords, occ))
        negative == Len(SelectWords(negative_keywords, occ))
    IN IF positive > negative THEN "Positivo"
       ELSE IF negative > positive THEN "Negativo"
       ELSE "Neutral"

\* process_ticket naming the category model alone in models_used
process_ticket_one_model(description, sent, llm, elapsed) ==
    LET sentiment_result == analyze_sentiment(description, sent)
        category_result == classify_category(description, llm)
    IN [category |-> category_result.category,
        category_reasoning |-> category_result.category_reasoning,
        sentiment |-> sentiment_result.sentiment,
        sentiment_reasoning |-> sentiment_result.reasoning,
        confidence |-> Combine(category_result.confidence, sentiment_result.confidence),
        keywords |-> category_result.keywords,
        processing_time_ms |-> elapsed,
        models_used |-> <<category_result.model>>]

\* process_ticket giving up the LLM's category when the sentiment step failed
process_ticket_both_or_neither(description, sent, llm, elapsed) ==
    LET sentiment_result == analyze_sentiment(description, sent)
        category_result == IF sentiment_result.model = "fallback"
                           THEN fallback_category_classification(description)
                           ELSE classify_category(description, llm)
    IN [category |-> category_result.category,
        category_reasoning |-> category_result.category_reasoning,
        sentiment |-> sentiment_result.sentiment,
        sentiment_reasoning |-> sentiment_result.reasoning,
        confidence |-> Combine(category_result.confidence, sentiment_result.confidence),
        keywords |-> category_result.keywords,
        processing_time_ms |-> elapsed,
        models_used |-> <<sentiment_result.model, category_result.model>>]

\* process_ticket taking the sentiment from the keyword count when the
\* category came from the keyword fallback
process_ticket_keyword_sentiment(description, sent, llm, elapsed) ==
    LET sentiment_result == analyze_sentiment(description, sent)
        category_result == classify_category(description, llm)
    IN [category |-> category_result.category,
        category_reasoning |-> category_result.category_reasoning,
        sentiment |-> IF category_result.model = "fallback-keywords"
                      THEN KeywordSentiment(description)
                      ELSE sentiment_result.sentiment,
        sentiment_reasoning |-> sentiment_result.reasoning,
        confidence |-> Combine(category_result.confidence, sentiment_result.confidence),
        keywords |-> category_result.keywords,
        processing_time_ms |-> elapsed,
        models_used |-> <<sentiment_result.model, category_result.model>>]

process_ticket(description, sent, llm, elapsed) ==
    LET sentiment_result == analyze_sentiment(description, sent)
        category_result == classify_category(description, llm)
    IN [category |-> category_result.category,
        category_reasoning |-> category_result.category_reasoning,
        sentiment |-> sentiment_result.sentiment,
        sentiment_reasoning |-> sentiment_result.reasoning,
        confidence |-> Combine(category_result.confidence, sentiment_result.confidence),
        keywords |-> category_result.keywords,
        processing_time_ms |-> elapsed,
        models_used |-> <<sentiment_result.model, category_result.model>>]

\* The external models as the answers they give to successive calls: the first
\* element answers the first call, the second would answer a second one.

\* process_ticket_calls calling the LLM again when its first answer was of no use
process_ticket_retrying(description, sents, llms, elapsed) ==
    LET retry == classify_category(description, llms[1]).model = "fallback-keywords"
    IN [result |-> process_ticket(description, sents[1],
                                  IF retry THEN llms[2] ELSE llms[1], elapsed),
        sentiment_calls |-> 1,
        llm_calls |-> IF retry THEN 2 ELSE 1]

\* process_ticket with the calls it makes: analyze_sentiment calls
\* sentiment_pipeline once (line 157) and classify_category calls
\* category_chain.invoke once (line 263); neither except branch calls again
process_ticket_calls(description, sents, llms, elapsed) ==
    [result |-> process_ticket(description, sents[1], llms[1], elapsed),
     sentiment_calls |-> 1,
     llm_calls |-> 1]

----------------------------------------------------------------------------
(* Optional values and Python strings *)

None == <<>>
Some(v) == <<v>>

\* str(v), as an f-string formats a value
PyStr(v) ==
    CASE v.ty = "str" -> v.s
      [] v.ty = "null" -> "None"
      [] v.ty = "num" -> ToString(v.n)
      [] OTHER -> ToString(v.l)

\* model names of 164 and of 170 characters, as GROQ_MODEL may configure them
ModelName164 == "model-name-of-164-characters"
ModelName170 == "model-name-of-170-characters"

\* len() of a model name
NameLen(name) ==
    CASE name = "fallback" -> 8
      [] name = "fallback-keywords" -> 17
      [] name = "llama-3.1-8b-instant" -> 20
      [] name = "twitter-xlm-roberta-base-sentiment" -> 34
      [] name = ModelName164 -> 164
      [] name = ModelName170 -> 170
      [] OTHER -> 0

RECURSIVE JoinLen(_)
JoinLen(names) ==
    IF names = <<>> THEN 0
    ELSE IF Len(names) = 1 THEN NameLen(names[1])
         ELSE NameLen(Head(names)) + 2 + JoinLen(Tail(names))

\* A model-identifier string: the first `kept` characters of the ", "-join of
\* names, followed by `dots` full stops.
\* ", ".join(names)
Joined(names) == [names |-> names, kept |-> JoinLen(names), dots |-> 0]

\* len(x)
StrLen(x) == x.kept + x.dots

\* x[:n]
Slice(x, n) ==
    IF n >= StrLen(x) THEN x
    ELSE IF n <= x.kept THEN [names |-> x.names, kept |-> n, dots |-> 0]
    ELSE [names |-> x.names, kept |-> x.kept, dots |-> n - x.kept]

\* x + "..."
Ellipsis(x) == [x EXCEPT !.dots = @ + 3]

\* Truncated keeping 200 characters before the marker
TruncatedAfter200(x) == IF StrLen(x) > 200 THEN Ellipsis(Slice(x, 200)) ELSE x

\* update_ticket: if len(llm_model) > 200: llm_model[:197] + "..."
Truncated(x) == IF StrLen(x) > 200 THEN Ellipsis(Slice(x, 197)) ELSE x

\* the handler: models_str = ", ".join(analysis["models_used"]), cut the same way
models_str(models_used) ==
    LET joined == Joined(models_used)
    IN IF StrLen(joined) > 200 THEN Ellipsis(Slice(joined, 197)) ELSE joined

----------------------------------------------------------------------------
(* The tickets table and SupabaseService *)

\* the row that insert({"description": ..., "processed": False}) creates: the
\* table assigns the id and created_at, the other columns are NULL
NewRow(id, description) ==
    [id |-> id, created_at |-> id, description |-> description,
     category |-> None, sentiment |-> None, confidence |-> None, reasoning |-> None,
     keywords |-> None, processing_time_ms |-> None, llm_model |-> None,
     processed |-> FALSE]

\* the arguments of update_ticket after ticket_id, each None or Some(value)
UpdateArgs(category, sentiment, confidence, reasoning, keywords, processing_time_ms, llm_model, processed) ==
    [category |-> category, sentiment |-> sentiment, confidence |-> confidence,
     reasoning |-> reasoning, keywords |-> keywords,
     processing_time_ms |-> processing_time_ms, llm_model |-> llm_model,
     processed |-> processed]

\* update_data: the arguments that are not None, llm_model truncated
UpdateData(args) ==
    [args EXCEPT !.llm_model = IF @ = None THEN None ELSE Some(Truncated(@[1]))]

\* UpdatedRow writing every column, the absent ones as NULL
UpdatedRowOverwrite(row, update_data) ==
    [row EXCEPT
        !.category = update_data.category,
        !.sentiment = update_data.sentiment,
        !.confidence = update_data.confidence,
        !.reasoning = update_data.reasoning,
        !.keywords = update_data.keywords,
        !.processing_time_ms = update_data.processing_time_ms,
        !.llm_model = update_data.llm_model,
        !.processed = IF update_data.processed = None THEN FALSE ELSE update_data.processed[1]]

\* table("tickets").update(update_data) on one row: the columns update_data names
UpdatedRow(row, update_data) ==
    [row EXCEPT
        !.category = IF update_data.category = None THEN @ ELSE update_data.category,
        !.sentiment = IF update_data.sentiment = None THEN @ ELSE update_data.sentiment,
        !.confidence = IF update_data.confidence = None THEN @ ELSE update_data.confidence,
        !.reasoning = IF update_data.reasoning = None THEN @ ELSE update_data.reasoning,
        !.keywords = IF update_data.keywords = None THEN @ ELSE update_data.keywords,
        !.processing_time_ms = IF update_data.processing_time_ms = None THEN @
                               ELSE update_data.processing_time_ms,
        !.llm_model = IF update_data.llm_model = None THEN @ ELSE update_data.llm_model,
        !.processed = IF update_data.processed = None THEN @ ELSE update_data.processed[1]]

\* the table after update_ticket(ticket_id, ...): .eq("id", ticket_id) selects
\* the row of that id, if there is one
update_ticket(table, ticket_id, args) ==
    IF ticket_id \in DOMAIN table
    THEN [table EXCEPT ![ticket_id] = UpdatedRow(@, UpdateData(args))]
    ELSE table

\* update_ticket raises when the update returns no row
UpdateReturnsRow(table, ticket_id) == ticket_id \in DOMAIN table

\* MarkArgs that sets processed to False
MarkArgsUnprocessed(category, sentiment, confidence, reasoning, keywords, processing_time_ms, llm_model) ==
    UpdateArgs(Some(category), Some(sentiment), Some(confidence), Some(reasoning),
               IF keywords.ty = "null" THEN None ELSE Some(keywords),
               Some(processing_time_ms), Some(llm_model), Some(FALSE))

\* MarkArgs that leaves the sentiment out
MarkArgsNoSentiment(category, sentiment, confidence, reasoning, keywords, processing_time_ms, llm_model) ==
    UpdateArgs(Some(category), None, Some(confidence), Some(reasoning),
               IF keywords.ty = "null" THEN None ELSE Some(keywords),
               Some(processing_time_ms), Some(llm_model), Some(TRUE))

\* the arguments mark_as_processed hands to update_ticket; a Python None among
\* them (keywords decoded from a JSON null) is an absent argument there
MarkArgs(category, sentiment, confidence, reasoning, keywords, processing_time_ms, llm_model) ==
    UpdateArgs(Some(category), Some(sentiment), Some(confidence), Some(reasoning),
               IF keywords.ty = "null" THEN None ELSE Some(keywords),
               Some(processing_time_ms), Some(llm_model), Some(TRUE))

mark_as_processed(table, ticket_id, category, sentiment, confidence, reasoning, keywords, processing_time_ms, llm_model) ==
    update_ticket(table, ticket_id,
                  MarkArgs(category, sentiment, confidence, reasoning, keywords,
                           processing_time_ms, llm_model))

\* the table after create_ticket(description), the new row under the id k
create_ticket(table, k, description) ==
    [i \in DOMAIN table \cup {k} |-> IF i = k THEN NewRow(k, description) ELSE table[i]]

\* the table after delete_ticket(ticket_id)
delete_ticket(table, ticket_id) ==
    [i \in DOMAIN table \ {ticket_id} |-> table[i]]

\* get_ticket(ticket_id): the row, or None
get_ticket(table, ticket_id) ==
    IF ticket_id \in DOMAIN table THEN Some(table[ticket_id]) ELSE None

\* an optional string argument that Python takes as true: given and not empty
Truthy(arg) == arg # None /\ arg[1] # ""

\* get_tickets lines 99-109: the rows the query selects. eq(column, value)
\* keeps the rows whose column holds that value
Selected(table, processed, category, sentiment) ==
    { table[i] : i \in { j \in DOMAIN table :
        /\ (IF processed # None THEN table[j].processed = processed[1] ELSE TRUE)
        /\ (IF Truthy(category) THEN table[j].category = category ELSE TRUE)
        /\ (IF Truthy(sentiment) THEN table[j].sentiment = sentiment ELSE TRUE) } }

RECURSIVE OrderDesc(_)
\* order("created_at", desc=True): the newest row first
OrderDesc(rows) ==
    IF rows = {} THEN <<>>
    ELSE LET newest == CHOOSE x \in rows : \A y \in rows : y.created_at <= x.created_at
         IN <<newest>> \o OrderDesc(rows \ {newest})

\* range(from, to) of the query builder: the rows at the positions from..to,
\* counted from 0, both ends included
Range(rows, from, to) ==
    LET last == IF to + 1 < Len(rows) THEN to + 1 ELSE Len(rows)
    IN IF from + 1 > last THEN <<>> ELSE SubSeq(rows, from + 1, last)

\* get_tickets whose range ends one position later
get_tickets_to_limit(table, limit, offset, processed, category, sentiment) ==
    Range(OrderDesc(Selected(table, processed, category, sentiment)), offset, offset + limit)

\* get_tickets lines 95-115
get_tickets(table, limit, offset, processed, category, sentiment) ==
    Range(OrderDesc(Selected(table, processed, category, sentiment)),
          offset, offset + limit - 1)

\* get_stats lines 338-339: select("id", count="exact")
CountAll(table) == Cardinality(DOMAIN table)

\* get_stats lines 342-343: select("id", count="exact").eq("processed", True)
CountProcessed(table) == Cardinality({ i \in DOMAIN table : table[i].processed })

\* get_stats lines 346-353, without the timestamp: the dict made of the two counts
get_stats(total, processed) ==
    [total |-> total, processed |-> processed, pending |-> total - processed]

----------------------------------------------------------------------------
(* Request and response models (app/models.py) *)

min_length == 10
max_length == 5000

RECURSIVE LStrip(_)
\* the text without its leading blank fragments
LStrip(d) == IF d # <<>> /\ Head(d) = Blank THEN LStrip(Tail(d)) ELSE d

RECURSIVE RStrip(_)
RStrip(d) == IF d # <<>> /\ d[Len(d)] = Blank THEN RStrip(SubSeq(d, 1, Len(d) - 1)) ELSE d

\* v.strip()
Strip(d) == RStrip(LStrip(d))

\* ProcessTicketRequest: the Field constraints on the raw description, then
\* description_must_not_be_empty on it
RequestValid(d) ==
    /\ TextLen(d) >= min_length
    /\ TextLen(d) <= max_length
    /\ Strip(d) # <<>>

\* AIAnalysisResult(...) of an analysis: pydantic accepts it
AnalysisValid(a) ==
    /\ a.category \in Categories              \* TicketCategory(analysis["category"])
    /\ a.category_reasoning.ty = "str"
    /\ a.sentiment \in Sentiments             \* TicketSentiment(analysis["sentiment"])
    /\ a.confidence >= 0                      \* ge=0.0
    /\ a.confidence <= 1000                   \* le=1.0
    /\ a.keywords.ty = "list"

----------------------------------------------------------------------------
(* HTTP responses *)

\* A response: the status and the keys of its JSON body, None for a key the
\* body lacks.
Response(status, success, error_code, detail, analysis, ticket) ==
    [status |-> status, success |-> success, error_code |-> error_code,
     detail |-> detail, analysis |-> analysis, ticket |-> ticket]

\* ProcessTicketResponse(success=True, ticket_id=..., analysis=ai_result, ...)
ProcessTicketResponse(analysis) ==
    Response(200, Some(TRUE), None, None, Some(analysis), None)

\* raise HTTPException(status_code, detail): the application registers a handler
\* for Exception only, so the framework's own handler answers, with the body
\* {"detail": detail}
HTTPException(status, detail) ==
    Response(status, None, None, Some(detail), None, None)

\* the framework's answer to a request body that fails validation
ValidationRejected == Response(422, None, None, Some(<<"validation">>), None, None)

\* GET /api/tickets/{id} returns the row as it is
TicketBody(row) == Response(200, None, None, None, None, Some(row))

\* GET /api/tickets/ lines 276-280: {"success": True, "count": ..., "tickets": ...}
ListBody(tickets) ==
    [status |-> 200, success |-> Some(TRUE), error_code |-> None, detail |-> None,
     analysis |-> None, ticket |-> None, count |-> Len(tickets), tickets |-> tickets]

\* GET /api/tickets/stats/overview lines 309-312: {"success": True, "stats": ...}
StatsBody(stats) ==
    [status |-> 200, success |-> Some(TRUE), error_code |-> None, detail |-> None,
     analysis |-> None, ticket |-> None, stats |-> stats]

\* GET /health, main.py lines 178-183: HealthCheckResponse(status=..., services=...)
HealthBody(healthy, services) ==
    [status |-> 200, success |-> None, error_code |-> None, detail |-> None,
     analysis |-> None, ticket |-> None,
     health |-> IF healthy THEN "healthy" ELSE "degraded", services |-> services]

----------------------------------------------------------------------------
(* The handlers of app/routers/tickets.py *)

\* Several requests may be in flight (several server processes share the
\* table). A request is atomic between two calls of the storage gateway.
\* Of a request the model keeps the handler's position and locals, and for the
\* properties: lookup, what get_ticket did ("row", "none", "raised"); error,
\* the text of the exception the handler caught; llm_raised, whether
\* category_chain.invoke raised; wrote, whether mark_as_processed returned;
\* steps, the calls a process request has made to the two services, in order;
\* total, the local of get_stats between its two queries.
Idle ==
    [pc |-> "idle", kind |-> "", ticket_id |-> 0, description |-> <<>>,
     lookup |-> "", analysis |-> None, llm_raised |-> FALSE, wrote |-> FALSE,
     error |-> None, response |-> None, steps |-> <<>>, total |-> 0]

Slots == 1..MaxRequests
TicketIds == 1..MaxTickets

\* the slots are taken in order
Free(r) == reqs[r].pc = "idle" /\ (IF r = 1 THEN TRUE ELSE reqs[r - 1].pc # "idle")

\* the handler has returned: its locals are gone, the response is out
Finished(req, response) ==
    [req EXCEPT !.pc = "done", !.analysis = None, !.response = Some(response)]

\* the except branch answering as if the request had succeeded
InternalErrorAbsorbed(e) == Response(200, Some(TRUE), None, None, None, None)

\* lines 189-198: except Exception as e
InternalError(e) ==
    HTTPException(500, <<"Error interno al procesar ticket: ", e>>)

\* lines 116-121
NotFound == HTTPException(404, <<"Ticket con ID ", "no encontrado">>)

\* the inputs the API requests are tried with
ApiDescriptions ==
    { <<"internet", "malo">>, <<"hola", "gracias">>, <<Blank, "internet">>, <<"hola">> }
ApiSentimentOutcomes ==
    { PipeRaise, Nested(<<Item("POSITIVE", 9996), Item("NEGATIVE", 4)>>) }
ApiLLMOutcomes ==
    { LLMRaise,
      LLMText(<<Prose>>),
      LLMText(Object(EchoX)),
      LLMText(Object([EchoX EXCEPT !.confidence = JNum(1500)])) }

\* a POST /api/tickets/process request with its body
Arrived(tid, d) == [Idle EXCEPT !.kind = "process", !.ticket_id = tid, !.description = d]

\* the request has called the service method
Called(req, method) == [req EXCEPT !.steps = Append(@, method)]

\* Looked going on to the models whatever get_ticket returned
LookedUnchecked(req, ticket) ==
    [Called(req, "get_ticket") EXCEPT !.pc = "found",
                                      !.lookup = IF ticket = None THEN "none" ELSE "row"]

\* lines 114-123: get_ticket has returned; without a ticket the handler
\* raises the 404, with one it goes on
Looked(req, ticket) ==
    IF ticket = None
    THEN Finished([Called(req, "get_ticket") EXCEPT !.lookup = "none"], NotFound)
    ELSE [Called(req, "get_ticket") EXCEPT !.pc = "found", !.lookup = "row"]

\* the request body fails validation: the handler is not entered
ProcessRejected(r) ==
    /\ Free(r)
    /\ \E tid \in TicketIds, d \in ApiDescriptions :
        /\ ~RequestValid(d)
        /\ reqs' = [reqs EXCEPT ![r] = Finished(Arrived(tid, d), ValidationRejected)]
    /\ UNCHANGED <<store, nextId, call, globals>>

\* lines 103-123: get_ticket finds the row
ProcessFound(r) ==
    /\ Free(r)
    /\ \E tid \in TicketIds, d \in ApiDescriptions :
        /\ RequestValid(d)
        /\ get_ticket(store, tid) # None
        /\ reqs' = [reqs EXCEPT ![r] = Looked(Arrived(tid, Strip(d)), get_ticket(store, tid))]
    /\ UNCHANGED <<store, nextId, call, globals>>

\* lines 116-121: get_ticket returns None
ProcessNotFound(r) ==
    /\ Free(r)
    /\ \E tid \in TicketIds, d \in ApiDescriptions :
        /\ RequestValid(d)
        /\ get_ticket(store, tid) = None
        /\ reqs' = [reqs EXCEPT ![r] = Looked(Arrived(tid, Strip(d)), get_ticket(store, tid))]
    /\ UNCHANGED <<store, nextId, call, globals>>

\* get_ticket raises: except Exception answers
ProcessReadFails(r) ==
    /\ Free(r)
    /\ \E tid \in TicketIds, d \in ApiDescriptions :
        /\ RequestValid(d)
        /\ reqs' = [reqs EXCEPT ![r] =
                      Finished([Called(Arrived(tid, Strip(d)), "get_ticket")
                                   EXCEPT !.lookup = "raised", !.error = Some("storage")],
                               InternalError("storage"))]
    /\ UNCHANGED <<store, nextId, call, globals>>

\* ai_service.process_ticket(description) for the descriptions and the model
\* outcomes of the requests, as a table
Analysis ==
    [d \in {Strip(x) : x \in ApiDescriptions}, sent \in ApiSentimentOutcomes,
     llm \in ApiLLMOutcomes, elapsed \in ElapsedValues |->
        process_ticket(d, sent, llm, elapsed)]

\* line 129: ai_service.process_ticket(request.description)
ProcessAnalyze(r) ==
    /\ reqs[r].pc = "found"
    /\ \E sent \in ApiSentimentOutcomes, llm \in ApiLLMOutcomes, elapsed \in ElapsedValues :
        reqs' = [reqs EXCEPT ![r].pc = "analyzed",
                             ![r].steps = Append(@, "process_ticket"),
                             ![r].llm_raised = llm.raises,
                             ![r].analysis =
                                 Some(Analysis[reqs[r].description, sent, llm, elapsed])]
    /\ UNCHANGED <<store, nextId, call, globals>>

\* Persisted naming only the category model in llm_model
PersistedCategoryModel(table, ticket_id, analysis) ==
    mark_as_processed(table, ticket_id, analysis.category, analysis.sentiment,
                      analysis.confidence,
                      [cat |-> PyStr(analysis.category_reasoning),
                       sent |-> analysis.sentiment_reasoning],
                      analysis.keywords, analysis.processing_time_ms,
                      models_str(<<analysis.models_used[2]>>))

\* lines 137-152: the table after supabase_service.mark_as_processed(...)
Persisted(table, ticket_id, analysis) ==
    mark_as_processed(table, ticket_id, analysis.category, analysis.sentiment,
                      analysis.confidence,
                      [cat |-> PyStr(analysis.category_reasoning),
                       sent |-> analysis.sentiment_reasoning],
                      analysis.keywords, analysis.processing_time_ms,
                      models_str(analysis.models_used))

\* Responded starting the request over when the response cannot be built
RespondedRetrying(req, analysis) ==
    IF AnalysisValid(analysis)
    THEN Finished(req, ProcessTicketResponse(analysis))
    ELSE [req EXCEPT !.pc = "found", !.analysis = None, !.wrote = FALSE,
                     !.steps = <<"get_ticket">>]

\* lines 156-183: the response is built from the analysis; AIAnalysisResult
\* raises a ValidationError on an analysis it does not accept
Responded(req, analysis) ==
    IF AnalysisValid(analysis)
    THEN Finished(req, ProcessTicketResponse(analysis))
    ELSE Finished([req EXCEPT !.error = Some("validation")], InternalError("validation"))

\* lines 137-183: the row is written and the response built
ProcessPersist(r) ==
    /\ reqs[r].pc = "analyzed"
    /\ UpdateReturnsRow(store, reqs[r].ticket_id)
    /\ store' = Persisted(store, reqs[r].ticket_id, reqs[r].analysis[1])
    /\ reqs' = [reqs EXCEPT ![r] =
                  Responded([Called(@, "mark_as_processed") EXCEPT !.wrote = TRUE],
                            @.analysis[1])]
    /\ UNCHANGED <<nextId, call, globals>>

\* mark_as_processed raises: the update reached no row (the ticket was deleted
\* since the check), or the gateway failed
ProcessWriteFails(r) ==
    /\ reqs[r].pc = "analyzed"
    /\ reqs' = [reqs EXCEPT ![r] =
                  Finished([Called(@, "mark_as_processed") EXCEPT !.error = Some("storage")],
                           InternalError("storage"))]
    /\ UNCHANGED <<store, nextId, call, globals>>

\* GET /api/tickets/{ticket_id}, lines 220-242
GetTicket(r) ==
    /\ Free(r)
    /\ \E tid \in TicketIds :
        LET req == [Idle EXCEPT !.kind = "get", !.ticket_id = tid]
        IN \/ /\ get_ticket(store, tid) # None
              /\ reqs' = [reqs EXCEPT ![r] =
                            Finished([req EXCEPT !.lookup = "row"],
                                     TicketBody(get_ticket(store, tid)[1]))]
           \/ /\ get_ticket(store, tid) = None
              /\ reqs' = [reqs EXCEPT ![r] =
                            Finished([req EXCEPT !.lookup = "none"],
                                     HTTPException(404, <<"Ticket ", "no encontrado">>))]
           \/ reqs' = [reqs EXCEPT ![r] =
                         Finished([req EXCEPT !.lookup = "raised", !.error = Some("storage")],
                                  HTTPException(500, <<"storage">>))]
    /\ UNCHANGED <<store, nextId, call, globals>>

\* the arguments GET /api/tickets/ is tried with
default_limit == 50
ListLimits == {1, default_limit}
ListProcessed == {None, Some(TRUE)}

\* list_tickets lines 268-280: what the handler returns when get_tickets returns
list_tickets(table, limit, offset, processed, category, sentiment) ==
    ListBody(get_tickets(table, limit, offset, processed, category, sentiment))

\* GET /api/tickets/, lines 265-287
ListTickets(r) ==
    /\ Free(r)
    /\ LET req == [Idle EXCEPT !.kind = "list"]
       IN \/ \E limit \in ListLimits, processed \in ListProcessed :
                reqs' = [reqs EXCEPT ![r] =
                           Finished(req, list_tickets(store, limit, 0, processed, None, None))]
          \/ reqs' = [reqs EXCEPT ![r] =
                        Finished([req EXCEPT !.error = Some("storage")],
                                 HTTPException(500, <<"storage">>))]
    /\ UNCHANGED <<store, nextId, call, globals>>

\* GET /health, main.py lines 134-183: supabase_service.health_check() selects
\* one id and returns whether the query went through; ai_service.health_check()
\* runs the sentiment pipeline on "test"
Health(r) ==
    /\ Free(r)
    /\ \E supabase_healthy \in BOOLEAN, sentiment_healthy \in BOOLEAN :
        reqs' = [reqs EXCEPT ![r] =
                   Finished([Idle EXCEPT !.kind = "health"],
                            HealthBody(supabase_healthy /\ sentiment_healthy,
                                       [supabase |-> IF supabase_healthy
                                                     THEN "connected" ELSE "error",
                                        sentiment_model |-> IF sentiment_healthy
                                                            THEN "healthy" ELSE "error: ",
                                        llm_model |-> "healthy"]))]
    /\ UNCHANGED <<store, nextId, call, globals>>

\* GET /api/tickets/stats/overview, lines 301-319: get_stats runs its first
\* query, the count of all rows (supabase_service.py lines 338-339), or the
\* query raises
GetStatsTotal(r) ==
    /\ Free(r)
    /\ LET req == [Idle EXCEPT !.kind = "stats"]
       IN \/ reqs' = [reqs EXCEPT ![r] =
                        [req EXCEPT !.pc = "counted", !.total = CountAll(store)]]
          \/ reqs' = [reqs EXCEPT ![r] =
                        Finished([req EXCEPT !.error = Some("storage")],
                                 HTTPException(500, <<"storage">>))]
    /\ UNCHANGED <<store, nextId, call, globals>>

\* get_stats runs its second query, the count of the processed rows (lines
\* 342-343), on the table as it is by then, and the handler answers
GetStatsProcessed(r) ==
    /\ reqs[r].pc = "counted"
    /\ \/ reqs' = [reqs EXCEPT ![r] =
                     Finished(@, StatsBody(get_stats(@.total, CountProcessed(store))))]
       \/ reqs' = [reqs EXCEPT ![r] =
                     Finished([@ EXCEPT !.error = Some("storage")],
                              HTTPException(500, <<"storage">>))]
    /\ UNCHANGED <<store, nextId, call, globals>>

\* the descriptions tickets are created with
TicketDescriptions == { <<"ERROR del sistema">> }

CreateTicket ==
    /\ nextId <= MaxTickets
    /\ \E d \in TicketDescriptions : store' = create_ticket(store, nextId, d)
    /\ nextId' = nextId + 1
    /\ UNCHANGED <<reqs, call, globals>>

DeleteTicket ==
    /\ \E tid \in DOMAIN store : store' = delete_ticket(store, tid)
    /\ UNCHANGED <<nextId, reqs, call, globals>>

----------------------------------------------------------------------------
(* Direct calls of the AIService methods *)

\* The service keeps nothing between two calls (its models are set once, in
\* __init__), so a behaviour of the service alone is one call from NoCall.
NoCall == [op |-> "none"]

CallProcessTicket ==
    /\ call = NoCall
    /\ \E d \in Descriptions, sent \in SentimentOutcomes, llm \in LLMOutcomes,
          elapsed \in ElapsedValues :
           call' = [op |-> "process_ticket", description |-> d, sent |-> sent, llm |-> llm,
                    result |-> process_ticket(d, sent, llm, elapsed)]
    /\ UNCHANGED <<store, nextId, reqs, globals>>

CallAnalyzeSentiment ==
    /\ call = NoCall
    /\ \E d \in Descriptions, sent \in SentimentOutcomes :
           call' = [op |-> "analyze_sentiment", description |-> d, sent |-> sent,
                    result |-> analyze_sentiment(d, sent)]
    /\ UNCHANGED <<store, nextId, reqs, globals>>

CallClassifyCategory ==
    /\ call = NoCall
    /\ \E d \in Descriptions, llm \in LLMOutcomes :
           call' = [op |-> "classify_category", description |-> d, llm |-> llm,
                    result |-> classify_category(d, llm)]
    /\ UNCHANGED <<store, nextId, reqs, globals>>

\* descriptions in which the three categories tie, with one keyword each and
\* with two
TieDescriptions ==
    { <<"internet", "factura", "plan">>,
      <<"ERROR del sistema", "factura", "plan">> }

CallFallback ==
    /\ call = NoCall
    /\ \E d \in Descriptions \cup TieDescriptions :
           call' = [op |-> "fallback", description |-> d,
                    result |-> fallback_category_classification(d)]
    /\ UNCHANGED <<store, nextId, reqs, globals>>

\* the answers the two models are tried with, first and second
SentimentAnswers ==
    { <<PipeRaise, Flat(<<Item("NEGATIVE", 8500)>>)>>,
      <<Flat(<<Item("NEGATIVE", 8500)>>), PipeRaise>> }
LLMAnswers ==
    { <<first, second>> :
        first \in { LLMRaise,
                    LLMText(<<Prose>>),
                    LLMText(Object(EchoX) \o <<Prose, Open, Prose, Close>>),
                    LLMText(<<Open, Body(EchoX)>>),
                    LLMText(Object(EchoX)) },
        second \in { LLMRaise, LLMText(Object(Echo("Facturación", 1000))) } }

CallProcessTicketCalls ==
    /\ call = NoCall
    /\ \E d \in Descriptions, sents \in SentimentAnswers, llms \in LLMAnswers :
           call' = [op |-> "process_ticket_calls", description |-> d, sents |-> sents,
                    llms |-> llms, outcome |-> process_ticket_calls(d, sents, llms, 0)]
    /\ UNCHANGED <<store, nextId, reqs, globals>>

\* the service exists: get_ai_service() has returned it
InitAI ==
    /\ store = <<>>
    /\ nextId = 1
    /\ reqs = <<>>
    /\ call = NoCall
    /\ environment = "development"
    /\ ai_service_instance = Some(1)
    /\ supabase_service_instance = None
    /\ inits = [ai |-> 1, supabase |-> 0]
    /\ callers = <<>>

NextAI ==
    \/ CallProcessTicket
    \/ CallAnalyzeSentiment
    \/ CallClassifyCategory
    \/ CallFallback
    \/ CallProcessTicketCalls

SpecAI == InitAI /\ [][NextAI]_vars

----------------------------------------------------------------------------
(* The API and the table *)

\* settings.environment as ENVIRONMENT configures it
Environments == {"development", "production"}

\* The server has started and both services have been built by an earlier
\* first use (GET /health builds them), so the handlers' get_ai_service() and
\* get_supabase_service() return the instances.
Init ==
    /\ store = <<>>
    /\ nextId = 1
    /\ reqs = [r \in Slots |-> Idle]
    /\ call = NoCall
    /\ environment \in Environments
    /\ ai_service_instance = Some(1)
    /\ supabase_service_instance = Some(1)
    /\ inits = [ai |-> 1, supabase |-> 1]
    /\ callers = <<>>

Next ==
    \/ CreateTicket
    \/ DeleteTicket
    \/ \E r \in Slots : ProcessRejected(r)
    \/ \E r \in Slots : ProcessFound(r)
    \/ \E r \in Slots : ProcessNotFound(r)
    \/ \E r \in Slots : ProcessReadFails(r)
    \/ \E r \in Slots : ProcessAnalyze(r)
    \/ \E r \in Slots : ProcessPersist(r)
    \/ \E r \in Slots : ProcessWriteFails(r)
    \/ \E r \in Slots : GetTicket(r)
    \/ \E r \in Slots : ListTickets(r)
    \/ \E r \in Slots : GetStatsTotal(r)
    \/ \E r \in Slots : GetStatsProcessed(r)
    \/ \E r \in Slots : Health(r)

Spec == Init /\ [][Next]_vars

\* Every external call returns or raises: a handler that waits for the models
\* goes on to line 137, and one that waits for the write goes on to its end.
\* The server keeps running its handlers; a request takes at most two such
\* steps, so no handler waits for ever behind the others.
HandlerStep ==
    \E r \in Slots : ProcessAnalyze(r) \/ ProcessPersist(r) \/ ProcessWriteFails(r)

Returns == WF_vars(HandlerStep)

\* the process requests alone, on a production server whose tickets stay
InitLive == Init /\ environment = "production"

NextLive ==
    \/ CreateTicket
    \/ \E r \in Slots : ProcessRejected(r)
    \/ \E r \in Slots : ProcessFound(r)
    \/ \E r \in Slots : ProcessNotFound(r)
    \/ \E r \in Slots : ProcessReadFails(r)
    \/ \E r \in Slots : ProcessAnalyze(r)
    \/ \E r \in Slots : ProcessPersist(r)
    \/ \E r \in Slots : ProcessWriteFails(r)

SpecLive == InitLive /\ [][NextLive]_vars /\ Returns


----------------------------------------------------------------------------
(* Direct calls of the SupabaseService methods *)

NoArgs == UpdateArgs(None, None, None, None, None, None, None, None)

\* lists of names whose join has 200 and 201 characters
Names200 ==
    <<SentimentModelName, SentimentModelName, SentimentModelName, SentimentModelName,
      SentimentModelName, groq_model>>
Names201 ==
    <<SentimentModelName, SentimentModelName, SentimentModelName, SentimentModelName,
      "fallback-keywords", "fallback", "fallback", "fallback", "fallback">>
NamesTried == {Names200, Names201}

\* the models_used the handler's lines 137-152 are tried with: the names of the
\* two steps, the second as configured (joins of 56, 200 and 206 characters)
ModelsUsedTried ==
    { <<SentimentModelName, groq_model>>,
      <<SentimentModelName, ModelName164>>,
      <<SentimentModelName, ModelName170>> }

\* the arguments update_ticket is tried with
ArgsTried ==
    { NoArgs,
      [NoArgs EXCEPT !.category = Some("Comercial")],
      [NoArgs EXCEPT !.confidence = Some(0)],
      [NoArgs EXCEPT !.processed = Some(FALSE)],
      UpdateArgs(Some("Técnico"), Some("Negativo"), Some(700),
                 Some([cat |-> KeywordsReasoning, sent |-> SentimentFailure.reasoning]),
                 Some(JList(<<>>)), Some(MaxElapsedMs),
                 Some(Joined(<<"fallback", "fallback-keywords">>)), Some(TRUE)) }
    \cup { [NoArgs EXCEPT !.llm_model = Some(Joined(names))] : names \in NamesTried }

GatewayCreate ==
    /\ nextId <= MaxTickets
    /\ \E d \in TicketDescriptions : store' = create_ticket(store, nextId, d)
    /\ nextId' = nextId + 1
    /\ call' = [op |-> "create_ticket", ticket_id |-> nextId, args |-> NoArgs]
    /\ UNCHANGED <<reqs, globals>>

\* update_ticket(tid, ...) with arguments of the set
UpdateWith(tried) ==
    /\ \E tid \in TicketIds, args \in tried :
        /\ store' = update_ticket(store, tid, args)
        /\ call' = [op |-> "update_ticket", ticket_id |-> tid, args |-> args]
    /\ UNCHANGED <<nextId, reqs, globals>>

GatewayUpdate == UpdateWith(ArgsTried)

GatewayDelete ==
    /\ \E tid \in DOMAIN store :
        /\ store' = delete_ticket(store, tid)
        /\ call' = [op |-> "delete_ticket", ticket_id |-> tid, args |-> NoArgs]
    /\ UNCHANGED <<nextId, reqs, globals>>

\* tickets.py lines 137-152 on an analysis: the string is built and handed to
\* mark_as_processed
GatewayMarkAsProcessed ==
    /\ \E tid \in TicketIds, models_used \in ModelsUsedTried :
        LET analysis == [process_ticket(<<"hola", "gracias">>, PipeRaise, LLMRaise, 0)
                            EXCEPT !.models_used = models_used]
        IN /\ store' = Persisted(store, tid, analysis)
           /\ call' = [op |-> "mark_as_processed", ticket_id |-> tid, args |-> NoArgs,
                       models_used |-> models_used]
    /\ UNCHANGED <<nextId, reqs, globals>>

\* the arguments get_tickets is tried with; a filter is None (not given) or
\* Some(value), and the empty string is a value a caller can give
MaxLimit == 2
MaxOffset == 1
ProcessedFilters == {None, Some(TRUE), Some(FALSE)}
CategoryFilters == {None, Some(""), Some("Técnico")}
SentimentFilters == {None, Some(""), Some("Negativo")}

\* get_tickets(...) and GET /api/tickets/ with the same arguments
GatewayGetTickets ==
    /\ \E limit \in 0..MaxLimit, offset \in 0..MaxOffset, processed \in ProcessedFilters,
          category \in CategoryFilters, sentiment \in SentimentFilters :
        call' = [op |-> "get_tickets", ticket_id |-> 0, args |-> NoArgs,
                 limit |-> limit, offset |-> offset, processed |-> processed,
                 category |-> category, sentiment |-> sentiment,
                 tickets |-> get_tickets(store, limit, offset, processed, category, sentiment),
                 body |-> list_tickets(store, limit, offset, processed, category, sentiment)]
    /\ UNCHANGED <<store, nextId, reqs, globals>>

NextGateway ==
    \/ GatewayCreate
    \/ GatewayUpdate
    \/ GatewayDelete
    \/ GatewayMarkAsProcessed

\* the table is empty, the client is built
InitGateway ==
    /\ store = <<>>
    /\ nextId = 1
    /\ reqs = [r \in Slots |-> Idle]
    /\ call = NoCall
    /\ environment = "development"
    /\ ai_service_instance = None
    /\ supabase_service_instance = Some(1)
    /\ inits = [ai |-> 0, supabase |-> 1]
    /\ callers = <<>>

SpecGateway == InitGateway /\ [][NextGateway]_vars

\* the updates that make the rows differ in the columns get_tickets filters by
ArgsListed ==
    { args \in ArgsTried :
        args.category # None \/ args.sentiment # None \/ args.processed # None }

GatewayUpdateListed == UpdateWith(ArgsListed)

\* get_tickets on the tables that creations, deletions and those updates make
NextList ==
    \/ GatewayCreate
    \/ GatewayUpdateListed
    \/ GatewayDelete
    \/ GatewayGetTickets

SpecList == InitGateway /\ [][NextList]_vars

----------------------------------------------------------------------------
(* get_ai_service and get_supabase_service *)

\* The callers are the handlers, coroutines of one event loop: the two functions
\* hold no await, so a call runs from its test to its return without another
\* caller in between. A constructor returns or raises (the model cannot be
\* loaded, the client cannot be created); an instance is named by the number
\* of the constructor run that built it.
Callers == 1..MaxCallers

NotCalled == [state |-> "not called", instance |-> 0]
Raised == [state |-> "raised", instance |-> 0]
Got(instance) == [state |-> "got", instance |-> instance]

\* the getter without its test: a new instance at every call
get_service_fresh(instance, runs, init_ok) ==
    IF init_ok
    THEN [instance |-> Some(runs + 1), runs |-> runs + 1, returned |-> Got(runs + 1)]
    ELSE [instance |-> instance, runs |-> runs + 1, returned |-> Raised]

\* if _instance is None: _instance = Service(); return _instance
get_service(instance, runs, init_ok) ==
    IF instance # None
    THEN [instance |-> instance, runs |-> runs, returned |-> Got(instance[1])]
    ELSE IF init_ok
    THEN [instance |-> Some(runs + 1), runs |-> runs + 1, returned |-> Got(runs + 1)]
    ELSE [instance |-> None, runs |-> runs + 1, returned |-> Raised]

get_ai_service(init_ok) == get_service(ai_service_instance, inits.ai, init_ok)

get_supabase_service(init_ok) ==
    get_service(supabase_service_instance, inits.supabase, init_ok)

GetAIService(c) ==
    /\ callers[c].ai = NotCalled
    /\ \E init_ok \in BOOLEAN :
        LET got == get_ai_service(init_ok)
        IN /\ ai_service_instance' = got.instance
           /\ inits' = [inits EXCEPT !.ai = got.runs]
           /\ callers' = [callers EXCEPT ![c].ai = got.returned]
    /\ UNCHANGED <<store, nextId, reqs, call, environment, supabase_service_instance>>

GetSupabaseService(c) ==
    /\ callers[c].supabase = NotCalled
    /\ \E init_ok \in BOOLEAN :
        LET got == get_supabase_service(init_ok)
        IN /\ supabase_service_instance' = got.instance
           /\ inits' = [inits EXCEPT !.supabase = got.runs]
           /\ callers' = [callers EXCEPT ![c].supabase = got.returned]
    /\ UNCHANGED <<store, nextId, reqs, call, environment, ai_service_instance>>

\* the process has started: nothing is built yet
InitSingleton ==
    /\ store = <<>>
    /\ nextId = 1
    /\ reqs = <<>>
    /\ call = NoCall
    /\ environment = "development"
    /\ ai_service_instance = None
    /\ supabase_service_instance = None
    /\ inits = [ai |-> 0, supabase |-> 0]
    /\ callers = [c \in Callers |-> [ai |-> NotCalled, supabase |-> NotCalled]]

NextSingleton ==
    \/ \E c \in Callers : GetAIService(c)
    \/ \E c \in Callers : GetSupabaseService(c)

SpecSingleton == InitSingleton /\ [][NextSingleton]_vars

----------------------------------------------------------------------------
(* Properties of POST /api/tickets/process and GET /api/tickets/{ticket_id} *)

\* a POST /api/tickets/process request that has been answered
Answered(r) == reqs[r].kind = "process" /\ reqs[r].pc = "done"

\* C1: a process request whose ticket exists and whose two storage calls
\* succeeded is answered 200 with success = true, whatever the classifier
\* returned (an exception, text that is no JSON, JSON with a value out of range).
C1_ClassifierFailureIsAbsorbed ==
    \A r \in Slots :
        (Answered(r) /\ reqs[r].lookup = "row" /\ reqs[r].wrote)
            => /\ reqs[r].response[1].status = 200
               /\ reqs[r].response[1].success = Some(TRUE)

\* C2: a process request during which the storage gateway failed (get_ticket
\* raised, or mark_as_processed raised or reached no row) is answered 500,
\* never 200; a 200 is given only after both storage calls succeeded.
C2_StorageFailureIs500 ==
    \A r \in Slots :
        Answered(r) =>
            /\ reqs[r].error = Some("storage")
                  => /\ reqs[r].response[1].status = 500
                     /\ reqs[r].response[1].success # Some(TRUE)
            /\ reqs[r].response[1].status = 200
                  => reqs[r].lookup = "row" /\ reqs[r].wrote

\* a request was analysed, its ticket was deleted, the write reached no row
C2_WriteFailedAfterAnalysis ==
    \E r \in Slots :
        /\ Answered(r)
        /\ reqs[r].lookup = "row"
        /\ reqs[r].error = Some("storage")
        /\ reqs[r].ticket_id \notin DOMAIN store
        /\ reqs[r].response[1].status = 500

\* C3: a request for a ticket_id that is not in storage, on either endpoint,
\* is answered 404 with a structured error body whose error_code names the
\* "not found" condition.
C3_NotFoundIsStructured404 ==
    \A r \in Slots :
        (reqs[r].pc = "done" /\ reqs[r].lookup = "none")
            => /\ reqs[r].response[1].status = 404
               /\ reqs[r].response[1].error_code # None

\* C5: the confidence of an analysis, and the confidence persisted in a row,
\* lie in [0, 1]: an out-of-range confidence of the LLM is clamped.
C5_ConfidenceInUnitInterval ==
    /\ \A r \in Slots :
          reqs[r].analysis # None
              => reqs[r].analysis[1].confidence >= 0 /\ reqs[r].analysis[1].confidence <= 1000
    /\ \A id \in DOMAIN store :
          store[id].confidence # None
              => store[id].confidence[1] >= 0 /\ store[id].confidence[1] <= 1000

\* the reasoning texts of the keyword fallback
FallbackReasonings == {JStr(NoKeywordsReasoning), JStr(KeywordsReasoning)}

\* C6 as stated: when the LLM call raised, the 200 response names exactly one
\* model, ["fallback-keywords"], and its category_reasoning is the fallback's.
C6_SingleFallbackModel ==
    \A r \in Slots :
        (Answered(r) /\ reqs[r].llm_raised /\ reqs[r].response[1].status = 200)
            => /\ reqs[r].response[1].analysis[1].models_used = <<"fallback-keywords">>
               /\ reqs[r].response[1].analysis[1].category_reasoning \in FallbackReasonings

\* C6: when the LLM call raised and the storage calls succeeded, the request is
\* answered 200; models_used has two elements, the sentiment step's model (its
\* name, or "fallback" when that step failed too) and then "fallback-keywords";
\* category_reasoning is one of the two texts of the keyword fallback.
C6_FallbackIsSecondModel ==
    \A r \in Slots :
        (Answered(r) /\ reqs[r].llm_raised /\ reqs[r].wrote)
            => /\ reqs[r].response[1].status = 200
               /\ reqs[r].response[1].success = Some(TRUE)
               /\ Len(reqs[r].response[1].analysis[1].models_used) = 2
               /\ reqs[r].response[1].analysis[1].models_used[1]
                      \in {SentimentModelName, "fallback"}
               /\ reqs[r].response[1].analysis[1].models_used[2] = "fallback-keywords"
               /\ reqs[r].response[1].analysis[1].category_reasoning \in FallbackReasonings

\* the LLM call raised while the sentiment model worked
C6_LLMRaisedAnswered ==
    \E r \in Slots :
        /\ Answered(r)
        /\ reqs[r].llm_raised
        /\ reqs[r].wrote
        /\ reqs[r].response[1].status = 200
        /\ reqs[r].response[1].analysis[1].models_used
               = <<SentimentModelName, "fallback-keywords">>
        /\ reqs[r].response[1].analysis[1].category_reasoning = JStr(KeywordsReasoning)

\* C9: in every state of the table, a row with processed = true has a category,
\* a sentiment and a confidence.
C9_ProcessedRowIsLabelled ==
    \A id \in DOMAIN store :
        store[id].processed
            => /\ store[id].category # None
               /\ store[id].sentiment # None
               /\ store[id].confidence # None

\* a row was marked processed by a request
C9_RowProcessed ==
    \E id \in DOMAIN store, r \in Slots :
        /\ store[id].processed
        /\ store[id].sentiment \in {Some("Neutral"), Some("Positivo")}
        /\ Answered(r)
        /\ reqs[r].ticket_id = id
        /\ reqs[r].wrote

----------------------------------------------------------------------------
(* Properties of the AIService methods *)

\* the object the LLM's content decodes to, when it decodes to one
DecodedObject(llm) ==
    IF llm.raises THEN Decoded(FALSE, FALSE, NoMembers)
    ELSE IF JsonMatch(llm.content) # <<>> THEN JsonLoads(JsonMatch(llm.content))
    ELSE JsonLoads(llm.content)

\* the sentiment step failed: the pipeline raised, returned nothing, or its
\* top item has no label
SentimentFailed(sent) ==
    \/ sent.kind = "raise"
    \/ sent.items = <<>>
    \/ ~TopSentiment(sent.items).keyed

\* C4: the result of process_ticket has its category in the taxonomy and its
\* sentiment in {Positivo, Neutral, Negativo}, for every output of the two
\* models; a decoded category that is absent or off the taxonomy gives
\* Comercial and a label the mapping does not know gives Neutral.
C4_ResultInTaxonomy ==
    call.op = "process_ticket" =>
        /\ call.result.category \in Categories
        /\ call.result.sentiment \in Sentiments
        /\ (/\ call.result.models_used[2] = groq_model
            /\ Get(DecodedObject(call.llm).m.category, JStr("Comercial"))
                   \notin {JStr(c) : c \in Categories})
              => call.result.category = "Comercial"
        /\ (/\ ~SentimentFailed(call.sent)
            /\ TopSentiment(call.sent.items).label
                   \notin {"POSITIVE", "5 stars", "4 stars", "NEGATIVE", "2 stars", "1 star"})
              => call.result.sentiment = "Neutral"

\* the LLM named a category off the taxonomy, the pipeline a label off the mapping
C4_OffTaxonomyAnswered ==
    /\ call.op = "process_ticket"
    /\ DecodedObject(call.llm).ok
    /\ DecodedObject(call.llm).m.category = JStr("Otro")
    /\ call.sent = Flat(<<Item("negative", 8000)>>)
    /\ call.result.category = "Comercial"
    /\ call.result.sentiment = "Neutral"
    /\ call.result.models_used = <<SentimentModelName, groq_model>>

\* C7 as stated: when the keyword fallback supplied the category, the sentiment
\* of the result is the keyword majority of the description.
C7_KeywordSentimentOnFallback ==
    (call.op = "process_ticket" /\ call.result.models_used[2] = "fallback-keywords")
        => call.result.sentiment = KeywordSentiment(call.description)

\* C7: when the keyword fallback supplied the category, the sentiment of the
\* result is still the sentiment step's: the mapping of the pipeline's top
\* label, or Neutral with the model "fallback" when that step failed; the
\* description's keywords do not decide it.
C7_SentimentStaysWithSentimentStep ==
    (call.op = "process_ticket" /\ call.result.models_used[2] = "fallback-keywords")
        => IF SentimentFailed(call.sent)
           THEN /\ call.result.sentiment = "Neutral"
                /\ call.result.models_used[1] = "fallback"
           ELSE /\ call.result.sentiment = sentiment_map(TopSentiment(call.sent.items).label)
                /\ call.result.models_used[1] = SentimentModelName

\* the fallback gave the category of a description whose only sentiment keywords
\* are negative, and the pipeline's Positivo is the result's sentiment
C7_FallbackWithModelSentiment ==
    /\ call.op = "process_ticket"
    /\ call.llm = LLMRaise
    /\ call.result.models_used[2] = "fallback-keywords"
    /\ KeywordSentiment(call.description) = "Negativo"
    /\ call.sent = Nested(<<Item("POSITIVE", 9996), Item("NEGATIVE", 4)>>)
    /\ call.result.sentiment = "Positivo"

\* C8: the keyword fallback returns, for every description, the empty one
\* included, a category of the taxonomy and a confidence in [0.5, 0.85]; so
\* does classify_category whenever it falls back.
C8_FallbackBounded ==
    (\/ call.op = "fallback"
     \/ (call.op = "classify_category" /\ call.result.model = "fallback-keywords"))
        => /\ call.result.category \in Categories
           /\ call.result.confidence >= 500
           /\ call.result.confidence <= 850
           /\ call.result.category_reasoning \in {JStr(NoKeywordsReasoning), JStr(KeywordsReasoning)}

\* the fallback classified the empty description
C8_EmptyDescriptionClassified ==
    /\ call.op = "fallback"
    /\ call.description = <<>>
    /\ call.result.category = "Comercial"
    /\ call.result.confidence = 500

----------------------------------------------------------------------------
(* Properties of the SupabaseService methods *)

\* what update_ticket(ticket_id, args) may change between the tables before and after
UpdateFrame(before, after, ticket_id, args) ==
    /\ DOMAIN after = DOMAIN before
    /\ \A i \in DOMAIN before : i # ticket_id => after[i] = before[i]
    /\ ticket_id \in DOMAIN before =>
        /\ after[ticket_id].id = before[ticket_id].id
        /\ after[ticket_id].description = before[ticket_id].description
        /\ after[ticket_id].created_at = before[ticket_id].created_at
        /\ args.category = None => after[ticket_id].category = before[ticket_id].category
        /\ args.sentiment = None => after[ticket_id].sentiment = before[ticket_id].sentiment
        /\ args.confidence = None => after[ticket_id].confidence = before[ticket_id].confidence
        /\ args.reasoning = None => after[ticket_id].reasoning = before[ticket_id].reasoning
        /\ args.keywords = None => after[ticket_id].keywords = before[ticket_id].keywords
        /\ args.processing_time_ms = None
              => after[ticket_id].processing_time_ms = before[ticket_id].processing_time_ms
        /\ args.llm_model = None => after[ticket_id].llm_model = before[ticket_id].llm_model
        /\ args.processed = None => after[ticket_id].processed = before[ticket_id].processed

\* C10: a call of update_ticket changes only the fields it was given: a field
\* passed as None keeps its stored value, id, description and created_at stay,
\* and no row of another id changes.
C10_UpdateChangesOnlySupplied ==
    [][call'.op = "update_ticket"
          => UpdateFrame(store, store', call'.ticket_id, call'.args)]_vars

\* update_ticket was given a category alone, for a processed row next to
\* another row; the row's sentiment and confidence are those it had
C10_PartialUpdateKeptTheRest ==
    /\ call.op = "update_ticket"
    /\ call.args = [NoArgs EXCEPT !.category = Some("Comercial")]
    /\ call.ticket_id \in DOMAIN store
    /\ DOMAIN store # {call.ticket_id}
    /\ store[call.ticket_id].category = Some("Comercial")
    /\ store[call.ticket_id].sentiment = Some("Negativo")
    /\ store[call.ticket_id].confidence = Some(700)
    /\ store[call.ticket_id].processed

----------------------------------------------------------------------------
(* Properties of get_ai_service and get_supabase_service *)

\* the callers that received an instance, and those that received an exception
GotAI == {c \in Callers : callers[c].ai.state = "got"}
GotSupabase == {c \in Callers : callers[c].supabase.state = "got"}
RaisedAI == {c \in Callers : callers[c].ai.state = "raised"}
RaisedSupabase == {c \in Callers : callers[c].supabase.state = "raised"}

\* C12 as stated: each constructor runs at most once, and every caller that
\* has called receives the same instance.
C12_ConstructedAtMostOnce ==
    /\ inits.ai <= 1
    /\ inits.supabase <= 1
    /\ \A c \in Callers :
          /\ callers[c].ai # NotCalled => callers[c].ai = Got(1)
          /\ callers[c].supabase # NotCalled => callers[c].supabase = Got(1)

\* C12: each constructor succeeds at most once: while no instance exists every
\* call runs the constructor, and a constructor that raises leaves no instance
\* and hands the exception to its caller; once a constructor has returned, it
\* never runs again and every later caller receives that one instance.
C12_OneInstanceOnceBuilt ==
    /\ \A c, d \in GotAI : callers[c].ai = callers[d].ai
    /\ \A c, d \in GotSupabase : callers[c].supabase = callers[d].supabase
    /\ \A c \in GotAI : ai_service_instance = Some(callers[c].ai.instance)
    /\ \A c \in GotSupabase : supabase_service_instance = Some(callers[c].supabase.instance)
    /\ inits.ai = Cardinality(RaisedAI) + (IF ai_service_instance = None THEN 0 ELSE 1)
    /\ inits.supabase
          = Cardinality(RaisedSupabase) + (IF supabase_service_instance = None THEN 0 ELSE 1)
    /\ ai_service_instance = None => GotAI = {}
    /\ supabase_service_instance = None => GotSupabase = {}

\* the first constructor run raised, the second built the instance that two
\* callers hold
C12_BuiltAfterFailure ==
    /\ inits.ai = 2
    /\ ai_service_instance = Some(2)
    /\ Cardinality(RaisedAI) = 1
    /\ Cardinality(GotAI) = 2
    /\ Cardinality(GotSupabase) = 2
    /\ inits.supabase = 1

----------------------------------------------------------------------------
(* Properties of the model-identifier string *)

\* a string without marker, cut as stated: over 200 characters, its first 197
\* and "..."; otherwise itself
CutTo200(x) ==
    IF x.kept + x.dots > 200 THEN [names |-> x.names, kept |-> 197, dots |-> 3] ELSE x

\* C11: the llm_model a row stores is the string given, when that has at most
\* 200 characters, and otherwise its first 197 characters followed by "..."
\* (200 characters); so for the string the handler builds from models_used and
\* for the llm_model argument of update_ticket. No stored llm_model is longer
\* than 200 characters, and cutting a cut string changes nothing.
C11_ModelStringCutTo200 ==
    /\ \A id \in DOMAIN store :
          store[id].llm_model # None
              => /\ StrLen(store[id].llm_model[1]) <= 200
                 /\ Truncated(store[id].llm_model[1]) = store[id].llm_model[1]
    /\ (/\ call.op = "update_ticket"
        /\ call.ticket_id \in DOMAIN store
        /\ call.args.llm_model # None)
          => /\ store[call.ticket_id].llm_model = Some(CutTo200(call.args.llm_model[1]))
             /\ Truncated(Truncated(call.args.llm_model[1]))
                    = Truncated(call.args.llm_model[1])
    /\ (call.op = "mark_as_processed" /\ call.ticket_id \in DOMAIN store)
          => store[call.ticket_id].llm_model = Some(CutTo200(Joined(call.models_used)))

\* a row holds a string of 200 characters as it was given, and the handler's
\* string of 206 characters was stored cut on another row
C11_LongStringStoredCut ==
    /\ call.op = "mark_as_processed"
    /\ call.ticket_id \in DOMAIN store
    /\ StrLen(Joined(call.models_used)) = 206
    /\ store[call.ticket_id].llm_model
           = Some([names |-> call.models_used, kept |-> 197, dots |-> 3])
    /\ \E id \in DOMAIN store : store[id].llm_model = Some(Joined(Names200))
    /\ StrLen(Joined(Names200)) = 200

----------------------------------------------------------------------------
(* Termination of POST /api/tickets/process *)

\* the handler of request r is waiting for an external call
InFlight(r) == reqs[r].kind = "process" /\ reqs[r].pc \in {"found", "analyzed"}

\* C13: when every external call returns or raises, every process request
\* the handler has taken up is answered, with 200 or 500 once its ticket was
\* found (404 is given at the existence check); a request whose LLM call raised
\* is answered like any other.
C13_EveryRequestIsAnswered ==
    \A r \in Slots :
        InFlight(r) ~> (Answered(r) /\ reqs[r].response[1].status \in {200, 500})

\* both models failed and the request was answered 200 from the fallbacks
C13_AnsweredAfterLLMRaise ==
    \E r \in Slots :
        /\ Answered(r)
        /\ reqs[r].llm_raised
        /\ reqs[r].response[1].status = 200
        /\ reqs[r].response[1].analysis[1].models_used = <<"fallback", "fallback-keywords">>
        /\ reqs[r].response[1].analysis[1].confidence <= 850

----------------------------------------------------------------------------
(* The description the handler works on *)

\* C14: a process request for which a storage or model call was made carries
\* a description that is not empty and has between 10 and 5000 characters; a
\* request whose description is shorter once its surrounding whitespace is
\* gone is rejected before any such call.
C14_DescriptionLengthAtCore ==
    \A r \in Slots :
        (reqs[r].kind = "process" /\ reqs[r].lookup # "")
            => /\ reqs[r].description # <<>>
               /\ TextLen(reqs[r].description) >= min_length
               /\ TextLen(reqs[r].description) <= max_length

----------------------------------------------------------------------------
(* The detail of the 500 responses *)

\* the response carries the text of the exception the handler caught
CarriesExceptionText(req) ==
    /\ req.error # None
    /\ req.response[1].detail # None
    /\ \E i \in DOMAIN req.response[1].detail[1] :
          req.response[1].detail[1][i] = req.error[1]

\* C15: outside development no 500 response of POST /api/tickets/process,
\* GET /api/tickets/{id}, GET /api/tickets/ and GET /api/tickets/stats/overview
\* carries the text of the underlying exception.
C15_NoExceptionTextOutsideDevelopment ==
    environment # "development" =>
        \A r \in Slots :
            (reqs[r].pc = "done" /\ reqs[r].response[1].status = 500)
                => ~CarriesExceptionText(reqs[r])

----------------------------------------------------------------------------
(* Properties of get_tickets and GET /api/tickets/ *)

\* the row passes the filters of the call; given(f) tells whether a category
\* or sentiment filter counts as supplied
Passes(row, c, given(_)) ==
    /\ (c.processed # None => row.processed = c.processed[1])
    /\ (given(c.category) => row.category = c.category)
    /\ (given(c.sentiment) => row.sentiment = c.sentiment)

\* the rows of the table newer than the row, among those that pass the filters
NewerPassing(row, c, given(_)) ==
    { i \in DOMAIN store : Passes(store[i], c, given)
                             /\ store[i].created_at > row.created_at }

\* what the claim says of a get_tickets call and of the GET /api/tickets/ body
ListedAsClaimed(c, given(_)) ==
    LET passing == { i \in DOMAIN store : Passes(store[i], c, given) }
        left == IF Cardinality(passing) > c.offset
                THEN Cardinality(passing) - c.offset ELSE 0
    IN /\ Len(c.tickets) <= c.limit
       /\ \A k \in 1..Len(c.tickets) :
            /\ \E i \in passing : store[i] = c.tickets[k]
            /\ Cardinality(NewerPassing(c.tickets[k], c, given)) = c.offset + k - 1
       /\ \A k \in 1..(Len(c.tickets) - 1) :
            c.tickets[k].created_at > c.tickets[k + 1].created_at
       /\ Len(c.tickets) = (IF left < c.limit THEN left ELSE c.limit)
       /\ c.body.count = Len(c.tickets)
       /\ c.body.tickets = c.tickets

Given(f) == f # None

\* C18 as stated: every get_tickets call with limit >= 0 and offset >= 0
\* returns at most limit tickets, each passing every filter that was given,
\* newest first, and they are the entries offset .. offset+limit-1 of the
\* filtered, ordered table; the count of GET /api/tickets/ is their number.
C18_ListedByEveryGivenFilter ==
    call.op = "get_tickets" => ListedAsClaimed(call, Given)

\* C18 amended: the same with a category or sentiment filter counting only
\* when it is not the empty string; an empty category or sentiment filters
\* nothing.
C18_ListedByEveryNonEmptyFilter ==
    call.op = "get_tickets" =>
        ListedAsClaimed(call, Truthy)

\* a call with the three filters given, an offset and a limit that leaves
\* a passing row out
C18_SecondPageOfFiltered ==
    /\ call.op = "get_tickets"
    /\ call.processed = Some(TRUE)
    /\ call.category = Some("Técnico")
    /\ call.sentiment = Some("Negativo")
    /\ call.offset = 1
    /\ call.limit = 1
    /\ Len(call.tickets) = 1
    /\ Cardinality(DOMAIN store) = 2

----------------------------------------------------------------------------
(* Properties of classify_category *)

\* the content of the call decodes to a JSON object
DecodesToObject(c) == DecodedObject(c.llm).ok /\ DecodedObject(c.llm).dict

\* the keys the prompt asks for
RequiredKeys == {"category", "category_reasoning", "confidence", "keywords"}
LacksKey(m) == \E k \in RequiredKeys : m[k] = JAbsent

\* C16 as stated: when the content decodes to an object that lacks one of the
\* four keys, classify_category answers from the keyword fallback.
C16_MissingKeyIsFallback ==
    (call.op = "classify_category" /\ DecodesToObject(call)
        /\ LacksKey(DecodedObject(call.llm).m))
        => call.result.model = "fallback-keywords"

\* C16 amended: an object that lacks a key (and whose confidence, when it has
\* one, converts to a float) is answered from the object itself, under the
\* name of the LLM: an absent category gives Comercial, an absent reasoning
\* "Clasificación automática", an absent confidence 0.8, absent keywords the
\* empty list, and the members it has are kept.
C16_MissingKeyIsDefaulted ==
    (call.op = "classify_category" /\ DecodesToObject(call)
        /\ LacksKey(DecodedObject(call.llm).m))
        => LET m == DecodedObject(call.llm).m
           IN (m.confidence = JAbsent \/ FloatOf(m.confidence).ok) =>
                /\ call.result.model = groq_model
                /\ call.result.category =
                      (IF m.category \in {JStr(c) : c \in Categories}
                       THEN m.category.s ELSE "Comercial")
                /\ call.result.category_reasoning =
                      (IF m.category_reasoning = JAbsent
                       THEN JStr("Clasificación automática") ELSE m.category_reasoning)
                /\ call.result.confidence =
                      (IF m.confidence = JAbsent THEN 800 ELSE FloatOf(m.confidence).n)
                /\ call.result.keywords =
                      (IF m.keywords = JAbsent THEN JList(<<>>) ELSE m.keywords)

\* the object without its reasoning was answered under the LLM's name
C16_ReasoningDefaulted ==
    /\ call.op = "classify_category"
    /\ call.llm = LLMText(Object([EchoX EXCEPT !.category_reasoning = JAbsent]))
    /\ call.result.model = groq_model
    /\ call.result.category = "Técnico"
    /\ call.result.category_reasoning = JStr("Clasificación automática")

\* C17: when the object's confidence is absent or does not convert (the string
\* "high", null), the result keeps the object's category, reasoning and
\* keywords under the LLM's name with confidence 0.8; and absent keywords
\* give the empty list.
C17_ConfidenceDefaultsToPointEight ==
    (call.op = "classify_category" /\ DecodesToObject(call))
        => LET m == DecodedObject(call.llm).m
           IN /\ (m.confidence = JAbsent \/ ~FloatOf(m.confidence).ok) =>
                    /\ call.result.model = groq_model
                    /\ call.result.confidence = 800
                    /\ call.result.category = ValidCategory(m)
                    /\ call.result.category_reasoning =
                          Get(m.category_reasoning, JStr("Clasificación automática"))
                    /\ call.result.keywords = Get(m.keywords, JList(<<>>))
              /\ (m.keywords = JAbsent /\ FloatOf(Get(m.confidence, JNum(800))).ok) =>
                    call.result.keywords = JList(<<>>)

\* the tokens hold no brace
BraceFree(tokens) == \A i \in DOMAIN tokens : tokens[i].t = "prose"

\* the content is the object of members x, alone or inside brace-free prose
EchoedIn(content, x) ==
    \E i \in 1..Len(content) :
        /\ i + 2 <= Len(content)
        /\ SubSeq(content, i, i + 2) = Object(x)
        /\ BraceFree(SubSeq(content, 1, i - 1))
        /\ BraceFree(SubSeq(content, i + 3, Len(content)))

\* the objects the prompt asks for: a category of the taxonomy, a reasoning, a
\* confidence in [0, 1], a list of keywords
Requested ==
    { x \in MembersTried :
        /\ x.category \in {JStr(c) : c \in Categories}
        /\ x.category_reasoning.ty = "str"
        /\ x.confidence.ty = "num" /\ x.confidence.n >= 0 /\ x.confidence.n <= 1000
        /\ x.keywords.ty = "list" }

\* C19: when the content is a requested object X, alone or inside prose or
\* fences without braces, the result has X's category, reasoning, confidence
\* and keywords under the LLM's name; when the content has no brace and is
\* not JSON, the result is the keyword fallback's.
C19_EchoIsRecovered ==
    (call.op = "classify_category" /\ ~call.llm.raises) =>
        /\ \A x \in Requested :
              EchoedIn(call.llm.content, x) =>
                /\ call.result.category = x.category.s
                /\ call.result.category_reasoning = x.category_reasoning
                /\ call.result.confidence = x.confidence.n
                /\ call.result.keywords = x.keywords
                /\ call.result.model = groq_model
        /\ (call.llm.content # <<>> /\ BraceFree(call.llm.content)) =>
              /\ call.result.model = "fallback-keywords"
              /\ call.result = fallback_category_classification(call.description)

\* the object inside prose was recovered
C19_RecoveredFromProse ==
    /\ call.op = "classify_category"
    /\ call.llm = LLMText(<<Prose>> \o Object(EchoX) \o <<Prose>>)
    /\ call.result.category = "Técnico"
    /\ call.result.confidence = 850
    /\ call.result.keywords = JList(<<"internet">>)
    /\ call.result.model = groq_model

----------------------------------------------------------------------------
(* The order of the calls of POST /api/tickets/process *)

HandlerOrder == <<"get_ticket", "process_ticket", "mark_as_processed">>

\* C20: a process request calls get_ticket, then the models, then
\* mark_as_processed, each after the one before has returned, and is answered
\* 200 only after the three; a request whose get_ticket found no ticket
\* calls neither the models nor mark_as_processed.
C20_StepsInOrder ==
    \A r \in Slots :
        reqs[r].kind = "process" =>
            /\ Len(reqs[r].steps) <= Len(HandlerOrder)
            /\ reqs[r].steps = SubSeq(HandlerOrder, 1, Len(reqs[r].steps))
            /\ (reqs[r].analysis # None \/ Len(reqs[r].steps) >= 2) => reqs[r].lookup = "row"
            /\ reqs[r].wrote => Len(reqs[r].steps) = 3
            /\ (reqs[r].pc = "done" /\ reqs[r].response[1].status = 200)
                  => (reqs[r].steps = HandlerOrder /\ reqs[r].wrote)
            /\ reqs[r].lookup = "none"
                  => /\ reqs[r].steps = <<"get_ticket">>
                     /\ reqs[r].pc = "done"
                     /\ reqs[r].response[1].status = 404
                     /\ ~reqs[r].wrote

\* one request went through the three calls and was answered 200, another
\* stopped at a ticket that does not exist
C20_OneServedOneNotFound ==
    \E r, q \in Slots :
        /\ reqs[r].kind = "process" /\ reqs[r].pc = "done"
        /\ reqs[r].response[1].status = 200
        /\ reqs[r].steps = HandlerOrder
        /\ reqs[q].kind = "process" /\ reqs[q].pc = "done"
        /\ reqs[q].lookup = "none"
        /\ reqs[q].steps = <<"get_ticket">>

----------------------------------------------------------------------------
(* Properties of process_ticket *)

\* the LLM step failed: the call raised, or its content did not decode
LLMStepFailed(llm) == llm.raises \/ ~DecodedObject(llm).ok

----------------------------------------------------------------------------
(* Properties of the extraction *)

\* the content holds a '{' with a '}' after it
HasBracePair(content) ==
    \E i, j \in DOMAIN content : i < j /\ content[i].t = "open" /\ content[j].t = "close"

\* the tokens from the first '{' to the last '}'
GreedySpan(content) ==
    LET i == CHOOSE a \in DOMAIN content :
                 content[a].t = "open" /\ \A b \in 1..(a - 1) : content[b].t # "open"
        j == CHOOSE a \in DOMAIN content :
                 content[a].t = "close" /\ \A b \in (a + 1)..Len(content) : content[b].t # "close"
    IN SubSeq(content, i, j)

\* C22: classify_category decodes the span from the first '{' to the last '}'
\* of the content, and the whole content only when it holds no brace pair;
\* when the chosen text does not decode the result is the keyword fallback's,
\* and when it decodes to an object whose confidence converts the result is
\* built from that object. Every call returns a result.
C22_GreedySpanOrWholeText ==
    (call.op = "classify_category" /\ ~call.llm.raises) =>
        LET chosen == IF HasBracePair(call.llm.content)
                      THEN GreedySpan(call.llm.content) ELSE call.llm.content
            decoded == JsonLoads(chosen)
        IN /\ call.result.model \in {groq_model, "fallback-keywords"}
           /\ (~decoded.ok \/ ~decoded.dict) =>
                 call.result = fallback_category_classification(call.description)
           /\ (decoded.ok /\ decoded.dict /\ FloatOf(Get(decoded.m.confidence, JNum(800))).ok) =>
                 /\ call.result.model = groq_model
                 /\ call.result.category = ValidCategory(decoded.m)
                 /\ call.result.keywords = Get(decoded.m.keywords, JList(<<>>))

\* prose with a second brace group after the object: the span does not decode
C22_SecondBraceGroupFellBack ==
    /\ call.op = "classify_category"
    /\ call.llm = LLMText(Object(EchoX) \o <<Prose, Open, Prose, Close>>)
    /\ call.description = <<"plan">>
    /\ call.result.model = "fallback-keywords"
    /\ call.result.category = "Comercial"

----------------------------------------------------------------------------
(* Properties of the keyword fallback *)

\* the keywords of the list that occur in the lower-cased description, each
\* counted once
Matches(keywords, description) ==
    Cardinality({ i \in DOMAIN keywords : keywords[i] \in Occurring(Lower(description)) })

\* the highest of the three match counts
HighestMatches(description) ==
    LET t == Matches(tech_keywords, description)
        b == Matches(billing_keywords, description)
        c == Matches(commercial_keywords, description)
    IN IF t >= b /\ t >= c THEN t ELSE IF b >= c THEN b ELSE c

\* C23: the keyword fallback picks a category of the highest match count, and
\* among categories that share the highest non-zero count Técnico comes
\* before Facturación and Facturación before Comercial.
C23_TieByDeclarationOrder ==
    call.op = "fallback" =>
        LET t == Matches(tech_keywords, call.description)
            b == Matches(billing_keywords, call.description)
            c == Matches(commercial_keywords, call.description)
            highest == HighestMatches(call.description)
        IN highest > 0 =>
            /\ (t = highest) => call.result.category = "Técnico"
            /\ (t < highest /\ b = highest) => call.result.category = "Facturación"
            /\ (t < highest /\ b < highest) => call.result.category = "Comercial"

\* the three categories tied with one keyword each, and Técnico was picked
C23_ThreeWayTieIsTecnico ==
    /\ call.op = "fallback"
    /\ call.description = <<"internet", "factura", "plan">>
    /\ call.result.category = "Técnico"

\* C24: when no keyword of any category occurs in the description the
\* fallback returns Comercial with confidence 0.5 and the reasoning that no
\* keywords matched; otherwise, with m the match count of the winning
\* category, the confidence is min(0.6 + 0.1*m, 0.85).
C24_FallbackConfidence ==
    call.op = "fallback" =>
        LET highest == HighestMatches(call.description)
        IN IF highest = 0
           THEN /\ call.result.category = "Comercial"
                /\ call.result.confidence = 500
                /\ call.result.category_reasoning = JStr(NoKeywordsReasoning)
           ELSE /\ call.result.confidence =
                     (IF 600 + 100 * highest < 850 THEN 600 + 100 * highest ELSE 850)
                /\ call.result.category_reasoning = JStr(KeywordsReasoning)

\* three keywords of one category: 0.9 is cut to 0.85
C24_ThreeMatchesCapped ==
    /\ call.op = "fallback"
    /\ call.description = <<"ERROR del sistema", "internet">>
    /\ Matches(tech_keywords, call.description) = 3
    /\ call.result.category = "Técnico"
    /\ call.result.confidence = 850

----------------------------------------------------------------------------
(* Properties of the combined confidence *)

\* C25: the confidence of a process_ticket result is round(0.6*c1 + 0.4*c2, 3)
\* for c1 the confidence of the category step and c2 that of the sentiment
\* step of the same invocation, and it lies in [0, 1].
C25_CombinedConfidenceInUnitInterval ==
    call.op = "process_ticket" =>
        LET c1 == classify_category(call.description, call.llm).confidence
            c2 == analyze_sentiment(call.description, call.sent).confidence
        IN /\ 1000 * call.result.confidence <= 600 * c1 + 400 * c2 + 500
           /\ 1000 * call.result.confidence > 600 * c1 + 400 * c2 - 500
           /\ call.result.confidence >= 0
           /\ call.result.confidence <= 1000

----------------------------------------------------------------------------
(* What a process request writes and what it answers *)

\* C26: a process request answered with a status other than 200 has written
\* nothing: only a request answered 200 has marked its ticket processed.
C26_OnlyOkRequestsWrite ==
    \A r \in Slots :
        (Answered(r) /\ reqs[r].response[1].status # 200) => ~reqs[r].wrote

\* the row holds what the analysis of a response says
RowAgrees(row, a) ==
    /\ row.processed
    /\ row.category = Some(a.category)
    /\ row.sentiment = Some(a.sentiment)
    /\ row.confidence = Some(a.confidence)
    /\ row.keywords = Some(a.keywords)
    /\ row.processing_time_ms = Some(a.processing_time_ms)
    /\ row.reasoning = Some([cat |-> a.category_reasoning.s, sent |-> a.sentiment_reasoning])
    /\ row.llm_model = Some(Truncated(Joined(a.models_used)))

\* C27: when a process request is answered 200, the row it has just written
\* agrees with the analysis of its response: category, sentiment, confidence,
\* keywords and processing time are the same, the reasoning is built from the
\* response's two reasonings, and llm_model is the join of its models_used,
\* cut to 200 characters.
C27_ResponseAgreesWithWrite ==
    [][\A r \in Slots :
          (/\ reqs[r].pc = "analyzed"
           /\ reqs'[r].pc = "done"
           /\ reqs'[r].response[1].status = 200)
              => /\ reqs'[r].wrote
                 /\ reqs[r].ticket_id \in DOMAIN store'
                 /\ RowAgrees(store'[reqs[r].ticket_id], reqs'[r].response[1].analysis[1])]_vars

\* a request answered 200 from the two models, and its ticket's row
C27_AnsweredAndStored ==
    \E r \in Slots :
        /\ Answered(r)
        /\ reqs[r].response[1].status = 200
        /\ reqs[r].response[1].analysis[1].models_used = <<SentimentModelName, groq_model>>
        /\ reqs[r].ticket_id \in DOMAIN store
        /\ RowAgrees(store[reqs[r].ticket_id], reqs[r].response[1].analysis[1])

----------------------------------------------------------------------------
(* The processed flag *)

\* the request is answered in this step
AnsweredNow(r) == reqs[r].pc # "done" /\ reqs'[r].pc = "done"

\* C28: a ticket is created with processed = false; the flag becomes true only
\* in the step of a process request that found the ticket and writes it, and
\* a ticket that has the flag keeps it as long as it exists; a process request
\* that writes leaves the flag true, on a ticket processed before too; the
\* steps of GET ticket, list, stats and health change no ticket.
C28_ProcessedIsMonotonic ==
    [][/\ \A id \in DOMAIN store' \ DOMAIN store : ~store'[id].processed
       /\ \A id \in DOMAIN store' \cap DOMAIN store :
            /\ store[id].processed => store'[id].processed
            /\ (~store[id].processed /\ store'[id].processed) =>
                  \E r \in Slots : /\ reqs[r].kind = "process"
                                   /\ reqs[r].lookup = "row"
                                   /\ reqs[r].ticket_id = id
                                   /\ ~reqs[r].wrote /\ reqs'[r].wrote
       /\ \A r \in Slots :
            /\ (reqs'[r].wrote /\ ~reqs[r].wrote) =>
                  /\ reqs[r].ticket_id \in DOMAIN store'
                  /\ store'[reqs[r].ticket_id].processed
            /\ (AnsweredNow(r) /\ reqs'[r].kind \in {"get", "list", "stats", "health"}) =>
                  store' = store]_vars

\* a ticket processed by one request was processed again by another and read
C28_ProcessedTwice ==
    \E id \in DOMAIN store :
        /\ store[id].processed
        /\ \A r \in Slots : /\ reqs[r].kind = "process"
                            /\ reqs[r].pc = "done"
                            /\ reqs[r].wrote
                            /\ reqs[r].ticket_id = id

----------------------------------------------------------------------------
(* The counts of GET /api/tickets/stats/overview *)

\* C29: the counts get_stats returns satisfy total = processed + pending,
\* processed <= total and pending >= 0, also when other requests create,
\* process or delete tickets between its two queries.
C29_StatsAreConsistent ==
    \A r \in Slots :
        (reqs[r].kind = "stats" /\ reqs[r].pc = "done" /\ reqs[r].response[1].status = 200)
            => LET stats == reqs[r].response[1].stats
               IN /\ stats.total = stats.processed + stats.pending
                  /\ stats.processed <= stats.total
                  /\ stats.pending >= 0

----------------------------------------------------------------------------
(* A failure of the sentiment step *)

\* C30: when the sentiment pipeline raises or returns what the code cannot
\* read, analyze_sentiment returns Neutral with confidence 0.5 and the model
\* "fallback"; process_ticket then still returns the category step's
\* category, reasoning and keywords for the description, the same as with
\* any other answer of the pipeline, blends that step's confidence with 0.5,
\* and names the models ["fallback", <category model>].
C30_SentimentFailureIsAbsorbed ==
    /\ (call.op = "analyze_sentiment" /\ SentimentFailed(call.sent)) =>
          /\ call.result.sentiment = "Neutral"
          /\ call.result.confidence = 500
          /\ call.result.model = "fallback"
    /\ (call.op = "process_ticket" /\ SentimentFailed(call.sent)) =>
          LET category_result == classify_category(call.description, call.llm)
          IN /\ call.result.sentiment = "Neutral"
             /\ call.result.models_used = <<"fallback", category_result.model>>
             /\ call.result.category = category_result.category
             /\ call.result.category_reasoning = category_result.category_reasoning
             /\ call.result.keywords = category_result.keywords
             /\ call.result.confidence = Combine(category_result.confidence, 500)
             /\ \A other \in SentimentOutcomes :
                   LET result == process_ticket(call.description, other, call.llm, 0)
                   IN /\ result.category = call.result.category
                      /\ result.category_reasoning = call.result.category_reasoning
                      /\ result.keywords = call.result.keywords
                      /\ result.models_used[2] = call.result.models_used[2]

\* the pipeline raised and the LLM's answer was kept
C30_LLMCategoryKept ==
    /\ call.op = "process_ticket"
    /\ call.sent = PipeRaise
    /\ call.llm = LLMText(Object(EchoX))
    /\ call.description = <<"factura">>
    /\ call.result.sentiment = "Neutral"
    /\ call.result.category = "Técnico"
    /\ call.result.models_used = <<"fallback", groq_model>>

====
